---- MODULE Spec2Model ----
(***************************************************************************)
(* Model of the in-memory index engine of the library backend:             *)
(*   dsa/hash_table.py   HashTable  (direct index, keyed by ISBN)          *)
(*   dsa/avl.py          AVLTree    (ordered index, keyed by title)        *)
(*   dsa/trie.py         Trie       (prefix index)                         *)
(*   core/engine.py      DSAEngine  (the three indexes + author trie)      *)
(*   core/synchronizer.py            add_book / delete_book / update_book  *)
(*   services/library.py             add_new_book / remove_book / ...      *)
(*                                                                         *)
(* Strings are sequences of character codes, so that str.lower(), the      *)
(* lexicographic comparison of keys and sum(ord(c)) are computed as the    *)
(* code computes them.  Python values are records [kind, id]: a reference  *)
(* to a Book object, an int, or None.                                      *)
(***************************************************************************)
EXTENDS Integers, Sequences, FiniteSets, TLC

\* ------------------------------------------------------------------------
\* Bounds and input sets
\* ------------------------------------------------------------------------
\* number of Book objects
MaxBooks == 2

BookIds == 1..MaxBooks

\* keys of the stand-alone hash table: "12", "21" (same character sum), "13"
ISBNs == { <<49, 50>>, <<50, 49>>, <<49, 51>> }

\* HashTable.__init__(size = 1024)
DefaultSize == 1024

\* table sizes tried by the stand-alone hash table specification
TableSizes == { 1, 2, DefaultSize }

\* longest chain the stand-alone hash table is filled to
MaxChain == 3

\* number of keys of the stand-alone tree
MaxAvlKeys == 5

\* "a", "b", "A", "c", "ab", "B", "ba", "C"
AvlKeyList ==
    << <<97>>, <<98>>, <<65>>, <<99>>, <<97, 98>>, <<66>>, <<98, 97>>, <<67>> >>

AvlKeys == { AvlKeyList[i] : i \in 1..MaxAvlKeys }

\* titles the interleaved request threads insert
MaxRaceKeys == 3

RaceKeys == { AvlKeyList[i] : i \in 1..MaxRaceKeys }

\* request threads of the server's thread pool inside avl_titles.insert
Threads == { 1, 2 }

\* titles of the catalog: "A", "ab"
Titles == { <<65>>, <<97, 98>> }

\* prefixes searched for: "", "a", "AB", "k", "kl", "b"
SearchPrefixes == { << >>, <<97>>, <<65, 66>>, <<107>>, <<107, 108>>, <<98>> }

\* searches counted per counter of the metrics
MaxSearches == 2

\* clock ticks added up in total_search_time_ms
MaxTicks == 2

\* bounds of range queries: "A", "ab", "B", "b"
RangeBounds == { <<65>>, <<97, 98>>, <<66>>, <<98>> }

\* author names: "k", "kl"
AuthorList == << <<107>>, <<107, 108>> >>

Authors == { AuthorList[i] : i \in 1..Len(AuthorList) }

\* "Dune", "Dune " and "Dune Messiah"
Dune == <<68, 117, 110, 101>>

DuneSpace == Dune \o <<32>>

DuneMessiah == DuneSpace \o <<77, 101, 115, 115, 105, 97, 104>>

\* words given to the stand-alone trie: "a", "ab", "Ab" and the two titles
TrieWords == { <<97>>, <<97, 98>>, <<65, 98>>, Dune, DuneMessiah }

\* prefixes searched for in it: "", "A", "ab", "b" and "Dune", "Dune "
TriePrefixes == { << >>, <<65>>, <<97, 98>>, <<98>>, Dune, DuneSpace }

\* payloads held by the stand-alone trie at one time
MaxPayloads == 3

\* the ISBN an update request may give a book: "13"
SpareIsbn == <<49, 51>>

\* the ISBN each Book object is created with: "12", "21", "13", "31", ...
IsbnList ==
    << <<49, 50>>, <<50, 49>>, <<49, 51>>, <<51, 49>>, <<49, 52>>, <<52, 49>> >>

\* ------------------------------------------------------------------------
\* Python values
\* ------------------------------------------------------------------------
None == [kind |-> "none", id |-> 0]

BookRef(b) == [kind |-> "book", id |-> b]

IntVal(n) == [kind |-> "int", id |-> n]

BookRefs == { BookRef(b) : b \in BookIds }

IntVals == { IntVal(b) : b \in BookIds }

\* ------------------------------------------------------------------------
\* State
\* ------------------------------------------------------------------------
VARIABLES
    book,       \* the Book objects the request handlers work on, one per
                \*          row: book[b] = [title, isbn, ...]
    loaded,     \* the Book objects of the startup session, which the engine's
                \*          indexes hold: loaded[b] = [title, isbn, ...]
    metrics,    \* dsa_engine.metrics
    ecall,      \* the last search of the engine: method, argument, what it
                \*          returned, metrics and indexes when it was called
    hsize,      \* HashTable.size
    buckets,    \* HashTable.buckets: the non-empty chains by bucket index;
                \* every other bucket of 0..hsize-1 is the empty list
    hmap,       \* history: key -> value of the last completed insert
                \*          not followed by a completed delete
    hkeys,      \* history: for every chain of buckets, the keys its entries
                \*          were inserted under, entry by entry
    hres,       \* result of the last HashTable call
    herr,       \* exception raised by the last HashTable call
    avl,        \* AVLTree.root
    amap,       \* history: key -> value of the last insert not followed
                \*          by a delete of the key
    ares,       \* result of the last AVLTree.search call
    arots,      \* rotations performed by the last AVLTree call
    acall,      \* the last AVLTree call: method, key, the root as it was
                \*          when it was called, the rotations it printed
    trie,       \* dsa_engine.trie.root
    atrie,      \* dsa_engine.author_trie.root
    twords,     \* history: lowercased word -> payload -> insertions of
                \*          the payload under the word not yet deleted
    tcall,      \* the last Trie call: method, word or prefix, payload
    tres,       \* what it returned
    tpre,       \* the root as it was when it was called
    lavl,       \* services/library.py avl_titles.root
    lbuckets,   \* services/library.py hash_isbn.buckets
    ltrie,      \* services/library.py trie_titles.root
    store,      \* the rows of table books: the ids of the persisted Books
    used,       \* the Book objects created so far
    pc,         \* position of the request being served
    op,         \* the handler being served
    cur,        \* its book argument
    fields,     \* its updated_fields argument
    old,        \* title and ISBN of the book when the handler was entered
    trace,      \* store and index operations completed by the handler
    snap,       \* the indexes as they were when the handler was entered
    err,        \* exception that ended the handler
    race        \* the request threads inside avl_titles.insert: where each
                \*          is, the root it read, its arguments; history:
                \*          the keys of the completed calls

hashVars == << hsize, buckets, hmap, hkeys, hres, herr >>

avlVars == << avl, amap, ares, arots, acall >>

trieVars == << trie, atrie, twords, tcall, tres, tpre >>

\* history of the stand-alone trie, not used by the engine
trieHist == << twords, tcall, tres, tpre >>

libVars == << lavl, lbuckets, ltrie >>

ctlVars == << store, used, pc, op, cur, fields, old, trace, snap, err >>

\* history of the stand-alone structures, not used by the engine
histVars == << hmap, hkeys, hres, herr, amap, ares, arots, acall >>

engVars == << metrics, ecall >>

vars ==
    << book, loaded, engVars, hashVars, avlVars, trieVars, libVars, ctlVars, race >>

\* ------------------------------------------------------------------------
\* dsa/hash_table.py
\* ------------------------------------------------------------------------
RECURSIVE SumOrd(_)
SumOrd(s) == IF s = << >> THEN 0 ELSE Head(s) + SumOrd(Tail(s))

\* HashTable._hash
Hash(key, size) == SumOrd(key) % size

\* b.isbn for a stored value b: only Book objects have the attribute
HasIsbn(v) == v.kind = "book"

IsbnOf(bk, v) == bk[v.id].isbn

\* index of the first entry of the chain with b.isbn == key, 0 if none;
\* -1 if the scan reaches an entry without attribute isbn first
RECURSIVE ScanFrom(_, _, _, _)
ScanFrom(bk, chain, key, i) ==
    IF i > Len(chain) THEN 0
    ELSE IF ~HasIsbn(chain[i]) THEN -1
    ELSE IF IsbnOf(bk, chain[i]) = key THEN i
    ELSE ScanFrom(bk, chain, key, i + 1)

Scan(bk, chain, key) == ScanFrom(bk, chain, key, 1)

RemoveAt(s, i) == [ j \in 1..(Len(s) - 1) |-> IF j < i THEN s[j] ELSE s[j + 1] ]

\* self.buckets[index]
Bucket(bs, index) == IF index \in DOMAIN bs THEN bs[index] ELSE << >>

\* self.buckets with the chain at index replaced
SetBucket(bs, index, chain) ==
    [ j \in (IF chain = << >> THEN DOMAIN bs \ { index } ELSE DOMAIN bs \cup { index })
        |-> IF j = index THEN chain ELSE bs[j] ]

\* HashTable.insert: [buckets, err, collision]
HInsert(bk, size, bs, key, value) ==
    LET index == Hash(key, size)
        bucket == Bucket(bs, index)
        i == Scan(bk, bucket, key)
    IN  IF i = -1 THEN [buckets |-> bs, err |-> "AttributeError", collision |-> FALSE]
        ELSE IF i > 0
        THEN [buckets |-> SetBucket(bs, index, [bucket EXCEPT ![i] = value]),
              err |-> "none", collision |-> FALSE]
        ELSE [buckets |-> SetBucket(bs, index, Append(bucket, value)),
              err |-> "none", collision |-> bucket # << >>]

\* HashTable.get: [value, err]
HGet(bk, size, bs, key) ==
    LET bucket == Bucket(bs, Hash(key, size))
        i == Scan(bk, bucket, key)
    IN  IF i = -1 THEN [value |-> None, err |-> "AttributeError"]
        ELSE IF i > 0 THEN [value |-> bucket[i], err |-> "none"]
        ELSE [value |-> None, err |-> "none"]

\* HashTable.delete: [buckets, err]
HDelete(bk, size, bs, key) ==
    LET index == Hash(key, size)
        bucket == Bucket(bs, index)
        i == Scan(bk, bucket, key)
    IN  IF i = -1 THEN [buckets |-> bs, err |-> "AttributeError"]
        ELSE IF i > 0
        THEN [buckets |-> SetBucket(bs, index, RemoveAt(bucket, i)), err |-> "none"]
        ELSE [buckets |-> bs, err |-> "none"]

\* [[] for _ in range(size)]: no chain is non-empty
EmptyBuckets == << >>

\* ------------------------------------------------------------------------
\* Strings
\* ------------------------------------------------------------------------
\* str.lower() on one character: 'A'..'Z' -> 'a'..'z'
LowerChar(c) == IF c >= 65 /\ c <= 90 THEN c + 32 ELSE c

Lower(s) == [ i \in 1..Len(s) |-> LowerChar(s[i]) ]

\* a < b on Python strings: lexicographic on the character codes
RECURSIVE StrLess(_, _)
StrLess(a, b) ==
    IF b = << >> THEN FALSE
    ELSE IF a = << >> THEN TRUE
    ELSE IF Head(a) < Head(b) THEN TRUE
    ELSE IF Head(a) > Head(b) THEN FALSE
    ELSE StrLess(Tail(a), Tail(b))

Max(a, b) == IF a >= b THEN a ELSE b

\* ------------------------------------------------------------------------
\* dsa/avl.py
\* ------------------------------------------------------------------------
\* the absent child / empty tree (Python None)
Nil == [nil |-> TRUE]

\* AVLNode.__init__
AVLNode(key, value) ==
    [key |-> key, value |-> value, left |-> Nil, right |-> Nil, height |-> 1]

\* AVLTree._height
Height(node) == IF node = Nil THEN 0 ELSE node.height

\* AVLTree._get_balance
GetBalance(node) ==
    IF node = Nil THEN 0 ELSE Height(node.left) - Height(node.right)

\* _right_rotate re-attaching x.left instead of T2 = x.right under y
RightRotate_WrongChild(y) ==
    LET x == y.left
        y1 == [y EXCEPT !.left = x.left]
        y2 == [y1 EXCEPT !.height = 1 + Max(Height(y1.left), Height(y1.right))]
        x1 == [x EXCEPT !.right = y2]
    IN  [x1 EXCEPT !.height = 1 + Max(Height(x1.left), Height(x1.right))]

\* _right_rotate recomputing the height of x, the new upper node, before
\* that of y
RightRotate_UpperFirst(y) ==
    LET x == y.left
        T2 == x.right
        y1 == [y EXCEPT !.left = T2]
        x1 == [x EXCEPT !.right = y1]
        x2 == [x1 EXCEPT !.height = 1 + Max(Height(x1.left), Height(x1.right))]
    IN  [x2 EXCEPT !.right.height = 1 + Max(Height(y1.left), Height(y1.right))]

\* AVLTree._right_rotate
RightRotate(y) ==
    LET x == y.left
        T2 == x.right
        y1 == [y EXCEPT !.left = T2]
        y2 == [y1 EXCEPT !.height = 1 + Max(Height(y1.left), Height(y1.right))]
        x1 == [x EXCEPT !.right = y2]
    IN  [x1 EXCEPT !.height = 1 + Max(Height(x1.left), Height(x1.right))]

\* _left_rotate taking T2 = y.right instead of y.left
LeftRotate_WrongT2(x) ==
    LET y == x.right
        T2 == y.right
        x1 == [x EXCEPT !.right = T2]
        x2 == [x1 EXCEPT !.height = 1 + Max(Height(x1.left), Height(x1.right))]
        y1 == [y EXCEPT !.left = x2]
    IN  [y1 EXCEPT !.height = 1 + Max(Height(y1.left), Height(y1.right))]

\* AVLTree._left_rotate
LeftRotate(x) ==
    LET y == x.right
        T2 == y.left
        x1 == [x EXCEPT !.right = T2]
        x2 == [x1 EXCEPT !.height = 1 + Max(Height(x1.left), Height(x1.right))]
        y1 == [y EXCEPT !.left = x2]
    IN  [y1 EXCEPT !.height = 1 + Max(Height(y1.left), Height(y1.right))]

\* the line a rotation prints: "[AVL_ROTATION] Left rotation on node: <key>"
Rotation(side, node) == [rot |-> side, key |-> node.key]

\* steps 2-4 of _insert without the Right Right case
InsertRebalance_NoRightRight(node, key, rots) ==
    LET n == [node EXCEPT !.height = 1 + Max(Height(node.left), Height(node.right))]
        balance == GetBalance(n)
    IN  IF balance > 1 /\ StrLess(key, n.left.key)
        THEN [t |-> RightRotate(n), rots |-> Append(rots, Rotation("right", n))]
        ELSE IF balance > 1 /\ StrLess(n.left.key, key)
        THEN [t |-> RightRotate([n EXCEPT !.left = LeftRotate(n.left)]),
              rots |-> rots \o << Rotation("left", n.left), Rotation("right", n) >>]
        ELSE IF balance < -1 /\ StrLess(key, n.right.key)
        THEN [t |-> LeftRotate([n EXCEPT !.right = RightRotate(n.right)]),
              rots |-> rots \o << Rotation("right", n.right), Rotation("left", n) >>]
        ELSE [t |-> n, rots |-> rots]

\* steps 2-4 of AVLTree._insert: height, balance, rotation chosen by the key
\* result: [t |-> subtree, rots |-> the rotations performed, in order]
InsertRebalance(node, key, rots) ==
    LET n == [node EXCEPT !.height = 1 + Max(Height(node.left), Height(node.right))]
        balance == GetBalance(n)
    IN  IF balance > 1 /\ StrLess(key, n.left.key)
        THEN [t |-> RightRotate(n), rots |-> Append(rots, Rotation("right", n))]
        ELSE IF balance < -1 /\ StrLess(n.right.key, key)
        THEN [t |-> LeftRotate(n), rots |-> Append(rots, Rotation("left", n))]
        ELSE IF balance > 1 /\ StrLess(n.left.key, key)
        THEN [t |-> RightRotate([n EXCEPT !.left = LeftRotate(n.left)]),
              rots |-> rots \o << Rotation("left", n.left), Rotation("right", n) >>]
        ELSE IF balance < -1 /\ StrLess(key, n.right.key)
        THEN [t |-> LeftRotate([n EXCEPT !.right = RightRotate(n.right)]),
              rots |-> rots \o << Rotation("right", n.right), Rotation("left", n) >>]
        ELSE [t |-> n, rots |-> rots]

\* _insert sending an equal key to the right subtree instead of overwriting
RECURSIVE InsertRec_DuplicateNode(_, _, _)
InsertRec_DuplicateNode(node, key, value) ==
    IF node = Nil THEN [t |-> AVLNode(key, value), rots |-> << >>]
    ELSE IF StrLess(key, node.key)
    THEN LET r == InsertRec_DuplicateNode(node.left, key, value)
         IN  InsertRebalance([node EXCEPT !.left = r.t], key, r.rots)
    ELSE LET r == InsertRec_DuplicateNode(node.right, key, value)
         IN  InsertRebalance([node EXCEPT !.right = r.t], key, r.rots)

\* AVLTree._insert
RECURSIVE InsertRec(_, _, _)
InsertRec(node, key, value) ==
    IF node = Nil THEN [t |-> AVLNode(key, value), rots |-> << >>]
    ELSE IF StrLess(key, node.key)
    THEN LET r == InsertRec(node.left, key, value)
         IN  InsertRebalance([node EXCEPT !.left = r.t], key, r.rots)
    ELSE IF StrLess(node.key, key)
    THEN LET r == InsertRec(node.right, key, value)
         IN  InsertRebalance([node EXCEPT !.right = r.t], key, r.rots)
    ELSE [t |-> [node EXCEPT !.value = value], rots |-> << >>]

\* _min_value_node stopping at the node it is given
MinValueNode_Self(node) == node

\* AVLTree._min_value_node
RECURSIVE MinValueNode(_)
MinValueNode(node) ==
    IF node.left # Nil THEN MinValueNode(node.left) ELSE node

\* _delete that recomputes the height but never rotates
DeleteRebalance_NoRotation(node, rots) ==
    [t |-> [node EXCEPT !.height = 1 + Max(Height(node.left), Height(node.right))],
     rots |-> rots]

\* steps 2-4 of AVLTree._delete: height, balance, rotation chosen by the
\* balance of the heavier child
DeleteRebalance(node, rots) ==
    LET n == [node EXCEPT !.height = 1 + Max(Height(node.left), Height(node.right))]
        balance == GetBalance(n)
    IN  IF balance > 1 /\ GetBalance(n.left) >= 0
        THEN [t |-> RightRotate(n), rots |-> Append(rots, Rotation("right", n))]
        ELSE IF balance > 1 /\ GetBalance(n.left) < 0
        THEN [t |-> RightRotate([n EXCEPT !.left = LeftRotate(n.left)]),
              rots |-> rots \o << Rotation("left", n.left), Rotation("right", n) >>]
        ELSE IF balance < -1 /\ GetBalance(n.right) <= 0
        THEN [t |-> LeftRotate(n), rots |-> Append(rots, Rotation("left", n))]
        ELSE IF balance < -1 /\ GetBalance(n.right) > 0
        THEN [t |-> LeftRotate([n EXCEPT !.right = RightRotate(n.right)]),
              rots |-> rots \o << Rotation("right", n.right), Rotation("left", n) >>]
        ELSE [t |-> n, rots |-> rots]

\* AVLTree._delete
RECURSIVE DeleteRec(_, _)
DeleteRec(node, key) ==
    IF node = Nil THEN [t |-> Nil, rots |-> << >>]
    ELSE IF StrLess(key, node.key)
    THEN LET r == DeleteRec(node.left, key)
         IN  DeleteRebalance([node EXCEPT !.left = r.t], r.rots)
    ELSE IF StrLess(node.key, key)
    THEN LET r == DeleteRec(node.right, key)
         IN  DeleteRebalance([node EXCEPT !.right = r.t], r.rots)
    ELSE IF node.left = Nil THEN [t |-> node.right, rots |-> << >>]
    ELSE IF node.right = Nil THEN [t |-> node.left, rots |-> << >>]
    ELSE LET temp == MinValueNode(node.right)
             r == DeleteRec(node.right, temp.key)
         IN  DeleteRebalance([node EXCEPT !.key = temp.key,
                                          !.value = temp.value,
                                          !.right = r.t], r.rots)

\* AVLTree.insert
AVLInsert(root, key, value) == InsertRec(root, key, value).t

\* AVLTree.delete
AVLDelete(root, key) == DeleteRec(root, key).t

\* AVLTree._search
RECURSIVE SearchNode(_, _)
SearchNode(node, key) ==
    IF node = Nil \/ node.key = key THEN node
    ELSE IF StrLess(key, node.key) THEN SearchNode(node.left, key)
    ELSE SearchNode(node.right, key)

\* AVLTree.search
AVLSearch(root, key) ==
    LET node == SearchNode(root, key)
    IN  IF node # Nil THEN node.value ELSE None

\* AVLTree._inorder, collecting the nodes (inorder_traversal returns their
\* values)
RECURSIVE InorderNodes(_)
InorderNodes(node) ==
    IF node = Nil THEN << >>
    ELSE InorderNodes(node.left) \o << node >> \o InorderNodes(node.right)

\* AVLTree.inorder_traversal
InorderTraversal(root) ==
    LET ns == InorderNodes(root) IN [ i \in 1..Len(ns) |-> ns[i].value ]

InorderKeys(root) ==
    LET ns == InorderNodes(root) IN [ i \in 1..Len(ns) |-> ns[i].key ]

\* every subtree of a tree, the tree included
RECURSIVE Subtrees(_)
Subtrees(node) ==
    IF node = Nil THEN { }
    ELSE { node } \cup Subtrees(node.left) \cup Subtrees(node.right)

\* height of a subtree counted on its shape, not read from the height field
RECURSIVE Depth(_)
Depth(node) ==
    IF node = Nil THEN 0 ELSE 1 + Max(Depth(node.left), Depth(node.right))

\* ------------------------------------------------------------------------
\* dsa/trie.py
\* ------------------------------------------------------------------------
\* TrieNode.__init__; children is a dict, kept as the sequence of its
\* (character, node) items in insertion order
TrieNode == [children |-> << >>, is_end_of_word |-> FALSE, books |-> << >>]

\* position of char among the keys of node.children, 0 if char not in it
ChildIndex(node, char) ==
    LET hits == { i \in 1..Len(node.children) : node.children[i].ch = char }
    IN  IF hits = { } THEN 0 ELSE CHOOSE i \in hits : TRUE

\* insert appending the payload without setting is_end_of_word
RECURSIVE TrieInsertFrom_NoFlag(_, _, _, _)
TrieInsertFrom_NoFlag(node, word, i, value) ==
    IF i > Len(word)
    THEN [node EXCEPT !.books = Append(node.books, value)]
    ELSE LET j == ChildIndex(node, word[i])
         IN  IF j = 0
             THEN [node EXCEPT !.children =
                      Append(node.children,
                             [ch |-> word[i],
                              node |-> TrieInsertFrom_NoFlag(TrieNode, word, i + 1,
                                                             value)])]
             ELSE [node EXCEPT !.children[j].node =
                      TrieInsertFrom_NoFlag(node.children[j].node, word, i + 1,
                                            value)]

\* the loop of Trie.insert from character i of the lowercased word on
RECURSIVE TrieInsertFrom(_, _, _, _)
TrieInsertFrom(node, word, i, value) ==
    IF i > Len(word)
    THEN [node EXCEPT !.is_end_of_word = TRUE, !.books = Append(node.books, value)]
    ELSE LET j == ChildIndex(node, word[i])
         IN  IF j = 0
             THEN [node EXCEPT !.children =
                      Append(node.children,
                             [ch |-> word[i],
                              node |-> TrieInsertFrom(TrieNode, word, i + 1, value)])]
             ELSE [node EXCEPT !.children[j].node =
                      TrieInsertFrom(node.children[j].node, word, i + 1, value)]

\* Trie.insert
TrieInsert(root, word, value) == TrieInsertFrom(root, Lower(word), 1, value)

\* Trie._collect
RECURSIVE TrieCollect(_)
RECURSIVE TrieCollectChildren(_, _)
TrieCollect(node) ==
    (IF node.is_end_of_word THEN node.books ELSE << >>)
        \o TrieCollectChildren(node.children, 1)

TrieCollectChildren(children, i) ==
    IF i > Len(children) THEN << >>
    ELSE TrieCollect(children[i].node) \o TrieCollectChildren(children, i + 1)

\* the walk of Trie.prefix_search from character i of the lowercased prefix
RECURSIVE TrieSearchFrom(_, _, _)
TrieSearchFrom(node, prefix, i) ==
    IF i > Len(prefix) THEN TrieCollect(node)
    ELSE LET j == ChildIndex(node, prefix[i])
         IN  IF j = 0 THEN << >>
             ELSE TrieSearchFrom(node.children[j].node, prefix, i + 1)

\* prefix_search walking the prefix as given, without prefix.lower()
PrefixSearch_NoLower(root, prefix) == TrieSearchFrom(root, prefix, 1)

\* Trie.prefix_search
PrefixSearch(root, prefix) == TrieSearchFrom(root, Lower(prefix), 1)

\* the node the walk over the characters of word from i on ends at, as in
\* prefix_search and _delete; a TrieNode without content if the path ends
RECURSIVE NodeAt(_, _, _)
NodeAt(node, word, i) ==
    IF i > Len(word) THEN node
    ELSE LET j == ChildIndex(node, word[i])
         IN  IF j = 0 THEN TrieNode ELSE NodeAt(node.children[j].node, word, i + 1)

\* the nodes below a node
RECURSIVE Descendants(_)
Descendants(node) ==
    UNION { { node.children[i].node } \cup Descendants(node.children[i].node) :
            i \in 1..Len(node.children) }

\* book in node.books
InSeq(x, s) == \E i \in 1..Len(s) : s[i] = x

\* a removal of every occurrence of book instead of the first
RemoveFirst_All(s, x) == SelectSeq(s, LAMBDA y : y # x)

\* node.books.remove(book): the first occurrence
RemoveFirst(s, x) == RemoveAt(s, CHOOSE i \in 1..Len(s) :
                                    s[i] = x /\ \A j \in 1..(i - 1) : s[j] # x)

RECURSIVE TrieDeleteRec(_, _, _, _)

\* _delete without the clean-up of empty child nodes
TrieDeleteRec_NoPrune(node, word, index, value) ==
    IF index = Len(word) + 1
    THEN IF node.is_end_of_word /\ InSeq(value, node.books)
         THEN LET bs == RemoveFirst(node.books, value)
              IN  [node |-> [node EXCEPT !.books = bs,
                                         !.is_end_of_word = (bs # << >>)],
                   deleted |-> TRUE]
         ELSE [node |-> node, deleted |-> FALSE]
    ELSE LET j == ChildIndex(node, word[index])
         IN  IF j = 0 THEN [node |-> node, deleted |-> FALSE]
             ELSE LET r == TrieDeleteRec(node.children[j].node, word, index + 1, value)
                  IN  [node |-> [node EXCEPT !.children[j].node = r.node],
                       deleted |-> r.deleted]

\* _delete dropping the child after a deletion without looking at the
\* child's own children
TrieDeleteRec_PruneParent(node, word, index, value) ==
    IF index = Len(word) + 1
    THEN IF node.is_end_of_word /\ InSeq(value, node.books)
         THEN LET bs == RemoveFirst(node.books, value)
              IN  [node |-> [node EXCEPT !.books = bs,
                                         !.is_end_of_word = (bs # << >>)],
                   deleted |-> TRUE]
         ELSE [node |-> node, deleted |-> FALSE]
    ELSE LET j == ChildIndex(node, word[index])
         IN  IF j = 0 THEN [node |-> node, deleted |-> FALSE]
             ELSE LET r == TrieDeleteRec(node.children[j].node, word, index + 1, value)
                  IN  IF r.deleted /\ ~r.node.is_end_of_word
                      THEN [node |-> [node EXCEPT !.children = RemoveAt(node.children, j)],
                            deleted |-> TRUE]
                      ELSE [node |-> [node EXCEPT !.children[j].node = r.node],
                            deleted |-> r.deleted]

\* Trie._delete: [node, deleted]; word is indexed from 1 here, from 0 there
TrieDeleteRec(node, word, index, value) ==
    IF index = Len(word) + 1
    THEN IF node.is_end_of_word /\ InSeq(value, node.books)
         THEN LET bs == RemoveFirst(node.books, value)
              IN  [node |-> [node EXCEPT !.books = bs,
                                         !.is_end_of_word = (bs # << >>)],
                   deleted |-> TRUE]
         ELSE [node |-> node, deleted |-> FALSE]
    ELSE LET j == ChildIndex(node, word[index])
         IN  IF j = 0 THEN [node |-> node, deleted |-> FALSE]
             ELSE LET r == TrieDeleteRec(node.children[j].node, word, index + 1, value)
                  IN  IF r.deleted /\ r.node.children = << >>
                                   /\ ~r.node.is_end_of_word
                      THEN [node |-> [node EXCEPT !.children = RemoveAt(node.children, j)],
                            deleted |-> TRUE]
                      ELSE [node |-> [node EXCEPT !.children[j].node = r.node],
                            deleted |-> r.deleted]

\* Trie.delete
TrieDelete(root, word, value) == TrieDeleteRec(root, Lower(word), 1, value).node

\* ------------------------------------------------------------------------
\* Stand-alone hash table: any sequence of insert / get / delete
\* ------------------------------------------------------------------------
\* values handed to HashTable.insert: Book objects (core/engine.py:67) and
\* book_id integers (services/library.py:53)
HashValues == { BookRef(1), BookRef(2), IntVal(1) }

\* the values stored by the stand-alone tree
AvlValues == { BookRef(1), BookRef(2) }

\* Book objects with pairwise distinct ISBNs (models.py: unique = True)
HashHeap == [ b \in BookIds |-> [isbn |-> IsbnList[b]] ]

\* HashTable.__init__ with the given size
HashNew(size) ==
    /\ hsize = size
    /\ buckets = EmptyBuckets
    /\ hmap = [ k \in ISBNs |-> None ]
    /\ hkeys = EmptyBuckets
    /\ hres = None
    /\ herr = "none"

\* AVLTree.__init__
AvlNew ==
    /\ avl = Nil
    /\ amap = [ k \in AvlKeys |-> None ]
    /\ ares = None
    /\ arots = 0
    /\ acall = [method |-> "none", key |-> << >>, pre |-> Nil, log |-> << >>]

\* Trie.__init__ of both tries of the engine
TrieValues == { BookRef(1), BookRef(2) }

\* the words as the trie holds them
TrieKeys == { Lower(w) : w \in TrieWords }

NoCall == [method |-> "none", word |-> << >>, value |-> None]

\* return value of a Trie call: the list of prefix_search, the bool of delete
Returned(books, deleted) == [books |-> books, deleted |-> deleted]

TrieNew ==
    /\ trie = TrieNode
    /\ atrie = TrieNode
    /\ twords = [ w \in TrieKeys |-> [ v \in TrieValues |-> 0 ] ]
    /\ tcall = NoCall
    /\ tres = Returned(<< >>, FALSE)
    /\ tpre = TrieNode

\* DSAEngine.__init__: self.metrics
NoMetrics ==
    [isbn_searches |-> 0, title_searches |-> 0, author_searches |-> 0,
     total_search_time_ms |-> 0]

NoSearch ==
    [method |-> "none", arg |-> << >>, res |-> None, pre |-> NoMetrics,
     idx |-> << >>]

EngineNew ==
    /\ metrics = NoMetrics
    /\ ecall = NoSearch

\* a request thread outside AVLTree.insert
NoThread == [pc |-> "out", ref |-> << >>, key |-> << >>, value |-> None]

\* no request thread is inside avl_titles.insert
NoRace ==
    [th |-> [t \in Threads |-> NoThread], done |-> { }, stale |-> FALSE,
     last |-> [key |-> << >>, root |-> << >>]]

\* module state of services/library.py
LibNew ==
    /\ lavl = Nil
    /\ lbuckets = EmptyBuckets
    /\ ltrie = TrieNode

\* no request is being served
NoEntry == [title |-> << >>, isbn |-> << >>]

NoSnap == << >>

Idle ==
    /\ pc = "idle"
    /\ op = "none"
    /\ cur = 0
    /\ fields = << >>
    /\ old = NoEntry
    /\ trace = << >>
    /\ snap = NoSnap
    /\ err = "none"

\* the structures stand alone: no catalog, no request
NoCatalog ==
    /\ TrieNew
    /\ EngineNew
    /\ race = NoRace
    /\ LibNew
    /\ store = { }
    /\ used = { }
    /\ Idle

InitHash ==
    /\ book = HashHeap
    /\ loaded = HashHeap
    /\ \E size \in TableSizes : HashNew(size)
    /\ AvlNew
    /\ NoCatalog

HashInsert(k, v) ==
    LET r == HInsert(book, hsize, buckets, k, v)
    IN  /\ Len(Bucket(buckets, Hash(k, hsize))) < MaxChain
        /\ buckets' = r.buckets
        /\ herr' = r.err
        /\ hres' = None
        /\ hmap' = IF r.err = "none" THEN [hmap EXCEPT ![k] = v] ELSE hmap
        /\ hkeys' = LET index == Hash(k, hsize)
                         i == Scan(book, Bucket(buckets, index), k)
                         ks == Bucket(hkeys, index)
                     IN  IF i = -1 THEN hkeys
                         ELSE IF i > 0
                         THEN SetBucket(hkeys, index, [ks EXCEPT ![i] = k])
                         ELSE SetBucket(hkeys, index, Append(ks, k))
        /\ UNCHANGED << book, hsize, loaded, engVars, race, avlVars, trieVars, libVars, ctlVars >>

HashDelete(k) ==
    LET r == HDelete(book, hsize, buckets, k)
    IN  /\ buckets' = r.buckets
        /\ herr' = r.err
        /\ hres' = None
        /\ hmap' = IF r.err = "none" THEN [hmap EXCEPT ![k] = None] ELSE hmap
        /\ hkeys' = LET index == Hash(k, hsize)
                         i == Scan(book, Bucket(buckets, index), k)
                     IN  IF i > 0
                         THEN SetBucket(hkeys, index,
                                        RemoveAt(Bucket(hkeys, index), i))
                         ELSE hkeys
        /\ UNCHANGED << book, hsize, loaded, engVars, race, avlVars, trieVars, libVars, ctlVars >>

HashGet(k) ==
    LET r == HGet(book, hsize, buckets, k)
    IN  /\ hres' = r.value
        /\ herr' = r.err
        /\ UNCHANGED << book, hsize, loaded, engVars, race, buckets, hmap, hkeys, avlVars,
                        trieVars, libVars, ctlVars >>

NextHash ==
    \/ \E k \in ISBNs, v \in HashValues : HashInsert(k, v)
    \/ \E k \in ISBNs : HashDelete(k)
    \/ \E k \in ISBNs : HashGet(k)

SpecHash == InitHash /\ [][NextHash]_vars

\* ------------------------------------------------------------------------
\* Stand-alone trie: any sequence of insert / delete / prefix_search
\* ------------------------------------------------------------------------
RECURSIVE SumOver(_, _)
SumOver(f, S) ==
    IF S = { } THEN 0
    ELSE LET x == CHOOSE y \in S : TRUE IN f[x] + SumOver(f, S \ { x })

\* payloads the history holds over all words
Held == SumOver([ w \in TrieKeys |-> SumOver(twords[w], TrieValues) ], TrieKeys)

InitTrie ==
    /\ book = HashHeap
    /\ loaded = HashHeap
    /\ HashNew(DefaultSize)
    /\ AvlNew
    /\ NoCatalog

TrieIns(w, v) ==
    /\ Held < MaxPayloads
    /\ trie' = TrieInsert(trie, w, v)
    /\ twords' = [twords EXCEPT ![Lower(w)][v] = @ + 1]
    /\ tcall' = [method |-> "insert", word |-> w, value |-> v]
    /\ tres' = Returned(<< >>, FALSE)
    /\ tpre' = trie
    /\ UNCHANGED << book, hashVars, loaded, engVars, race, avlVars, atrie, libVars, ctlVars >>

TrieDel(w, v) ==
    LET r == TrieDeleteRec(trie, Lower(w), 1, v)
    IN  /\ trie' = r.node
        /\ twords' = IF twords[Lower(w)][v] > 0
                     THEN [twords EXCEPT ![Lower(w)][v] = @ - 1]
                     ELSE twords
        /\ tcall' = [method |-> "delete", word |-> w, value |-> v]
        /\ tres' = Returned(<< >>, r.deleted)
        /\ tpre' = trie
        /\ UNCHANGED << book, hashVars, loaded, engVars, race, avlVars, atrie, libVars, ctlVars >>

TrieSearch(p) ==
    /\ tcall' = [method |-> "prefix_search", word |-> p, value |-> None]
    /\ tres' = Returned(PrefixSearch(trie, p), FALSE)
    /\ tpre' = trie
    /\ UNCHANGED << book, hashVars, loaded, engVars, race, avlVars, trie, atrie, twords, libVars, ctlVars >>

NextTrie ==
    \/ \E w \in TrieWords, v \in TrieValues : TrieIns(w, v)
    \/ \E w \in TrieWords, v \in TrieValues : TrieDel(w, v)
    \/ \E p \in TriePrefixes : TrieSearch(p)

SpecTrie == InitTrie /\ [][NextTrie]_vars

\* ------------------------------------------------------------------------
\* models.py: Book, and the table books
\* ------------------------------------------------------------------------
\* an object not created yet
NoBook == [title |-> << >>, isbn |-> << >>, author |-> << >>]

\* Book(title = .., isbn = .., author = ..)
NewBook(t, i, a) == [title |-> t, isbn |-> i, author |-> a]

AuthorOf(b) == AuthorList[1 + (b % Len(AuthorList))]

\* ISBNs held by the rows of the table other than row b (isbn is unique)
IsbnsInUse(bk, st, b) == { bk[c].isbn : c \in st \ { b } }

\* for key, value in updated_fields.items(): setattr(book, key, value)
SetAttrs(rec, f) ==
    [ a \in DOMAIN rec |-> IF a \in DOMAIN f THEN f[a] ELSE rec[a] ]

\* the updated_fields dictionaries of the requests
UpdatedFields ==
    { [title |-> t] : t \in Titles }
        \cup { [isbn |-> SpareIsbn] }
        \cup { [author |-> a] : a \in Authors }

\* an entry of the trace of a handler
Ev(name, key) == [ev |-> name, key |-> key]

KeysOf(rec) == [title |-> rec.title, isbn |-> rec.isbn]

\* ------------------------------------------------------------------------
\* core/engine.py
\* ------------------------------------------------------------------------
\* the body of the loop of DSAEngine.load_books, on the record e of the four
\* structures of the engine
LoadOne(e, bk, b) ==
    LET h == HInsert(bk, DefaultSize, e.buckets, bk[b].isbn, BookRef(b))
    IN  IF h.err # "none"
        THEN [e EXCEPT !.avl = AVLInsert(e.avl, Lower(bk[b].title), BookRef(b)),
                       !.err = h.err]
        ELSE [avl |-> AVLInsert(e.avl, Lower(bk[b].title), BookRef(b)),
              buckets |-> h.buckets,
              trie |-> TrieInsert(e.trie, bk[b].title, BookRef(b)),
              atrie |-> IF bk[b].author # << >>
                        THEN TrieInsert(e.atrie, bk[b].author, BookRef(b))
                        ELSE e.atrie,
              err |-> "none"]

\* DSAEngine.load_books
RECURSIVE LoadBooks(_, _, _, _)
LoadBooks(e, bk, books, i) ==
    IF i > Len(books) \/ e.err # "none" THEN e
    ELSE LoadBooks(LoadOne(e, bk, books[i]), bk, books, i + 1)

\* DSAEngine.search_by_isbn
SearchByIsbn(isbn) == HGet(loaded, hsize, buckets, isbn)

\* DSAEngine.search_by_title_exact
SearchByTitleExact(title) == AVLSearch(avl, Lower(title))

\* DSAEngine.search_by_title_prefix
SearchByTitlePrefix(prefix) == PrefixSearch(trie, prefix)

\* DSAEngine.search_by_author_prefix
SearchByAuthorPrefix(prefix) == PrefixSearch(atrie, prefix)

\* DSAEngine.get_all_sorted
GetAllSorted == InorderTraversal(avl)

\* a <= b on Python strings
StrLessEq(a, b) == a = b \/ StrLess(a, b)

GetRange_RawBounds(min_key, max_key) ==
    SelectSeq(InorderTraversal(avl),
              LAMBDA v : /\ StrLessEq(min_key, Lower(loaded[v.id].title))
                         /\ StrLessEq(Lower(loaded[v.id].title), max_key))

\* DSAEngine.get_range: the books of inorder_traversal() with
\*   min_key.lower() <= book.title.lower() <= max_key.lower()
GetRange(min_key, max_key) ==
    SelectSeq(InorderTraversal(avl),
              LAMBDA v : /\ StrLessEq(Lower(min_key), Lower(loaded[v.id].title))
                         /\ StrLessEq(Lower(loaded[v.id].title), Lower(max_key)))

\* ------------------------------------------------------------------------
\* Calls with keyword arguments
\* ------------------------------------------------------------------------
\* def insert(self, key, value)              dsa/avl.py
AVLInsertParams == { "key", "value" }

\* def insert(self, key, book, db = None)    dsa/hash_table.py
HashInsertParams == { "key", "book", "db" }

\* def insert(self, word, book, db = None)   dsa/trie.py
TrieInsertParams == { "word", "book", "db" }

\* a call passing the keyword arguments kw raises TypeError unless every one
\* of them is a parameter of the function
Accepts(params, kw) == kw \subseteq params

\* ------------------------------------------------------------------------
\* app.py startup hook and core/synchronizer.py
\* ------------------------------------------------------------------------
\* the orders in which db.query(Book).all() may list the rows
Snapshots(st) ==
    { q \in [ 1..Cardinality(st) -> st ] :
        \A i, j \in 1..Cardinality(st) : i # j => q[i] # q[j] }

\* startup_event: dsa_engine.load_books(db.query(Book).all(), db = db)
Startup ==
    /\ pc = "boot"
    /\ \E books \in Snapshots(store) :
         LET e == LoadBooks([avl |-> avl, buckets |-> buckets, trie |-> trie,
                             atrie |-> atrie, err |-> "none"], book, books, 1)
         IN  /\ avl' = e.avl
             /\ buckets' = e.buckets
             /\ trie' = e.trie
             /\ atrie' = e.atrie
    /\ loaded' = book
    /\ pc' = "idle"
    /\ UNCHANGED << book, hsize, engVars, race, histVars, trieHist, libVars, store, used,
                    op, cur, fields, old, trace, snap, err >>

\* the object the next add request creates
Fresh == CHOOSE b \in BookIds \ used : \A c \in BookIds \ used : b <= c

\* the six index structures: those of dsa_engine, those of services/library.py
IndexSnapshot ==
    [avl |-> avl, buckets |-> buckets, trie |-> trie,
     lavl |-> lavl, lbuckets |-> lbuckets, ltrie |-> ltrie]

\* a handler is entered for book b
Enter(name, b, f, bk) ==
    /\ pc = "idle"
    /\ op' = name
    /\ cur' = b
    /\ fields' = f
    /\ old' = KeysOf(bk[b])
    /\ snap' = IndexSnapshot

\* add_book, lines 25-27: db.add(book); db.commit(); db.refresh(book)
SyncAdd_Persist(t) ==
    /\ used # BookIds
    /\ IsbnList[Fresh] \notin IsbnsInUse(book, store, 0)
    /\ book' = [book EXCEPT ![Fresh] = NewBook(t, IsbnList[Fresh], AuthorOf(Fresh))]
    /\ Enter("add_book", Fresh, << >>, book')
    /\ used' = used \cup { Fresh }
    /\ store' = store \cup { Fresh }
    /\ trace' = << Ev("store_add", << >>) >>
    /\ pc' = "sync_add_index"
    /\ UNCHANGED << hashVars, loaded, engVars, race, avlVars, trieVars, libVars, err >>

\* the three insertions that end add_book and update_book:
\*   dsa_engine.avl.insert(book.title.lower(), book, db=db)
\*   dsa_engine.hash_table.insert(book.isbn, book, db=db)
\*   dsa_engine.trie.insert(book.title, book, db=db)
SyncInsertIndexes ==
    LET b == cur
        h == HInsert(book, hsize, buckets, book[b].isbn, BookRef(b))
    IN  IF ~Accepts(AVLInsertParams, { "db" })
        THEN /\ err' = "TypeError"
             /\ trace' = trace
             /\ UNCHANGED << avl, buckets, trie >>
        ELSE IF ~Accepts(HashInsertParams, { "db" })
        THEN /\ err' = "TypeError"
             /\ avl' = AVLInsert(avl, Lower(book[b].title), BookRef(b))
             /\ trace' = Append(trace, Ev("avl_insert", Lower(book[b].title)))
             /\ UNCHANGED << buckets, trie >>
        ELSE IF h.err # "none" \/ ~Accepts(TrieInsertParams, { "db" })
        THEN /\ err' = IF h.err # "none" THEN h.err ELSE "TypeError"
             /\ avl' = AVLInsert(avl, Lower(book[b].title), BookRef(b))
             /\ buckets' = h.buckets
             /\ trace' = trace \o << Ev("avl_insert", Lower(book[b].title)) >>
                           \o (IF h.err = "none"
                               THEN << Ev("hash_insert", book[b].isbn) >> ELSE << >>)
             /\ trie' = trie
        ELSE /\ err' = "none"
             /\ avl' = AVLInsert(avl, Lower(book[b].title), BookRef(b))
             /\ buckets' = h.buckets
             /\ trie' = TrieInsert(trie, book[b].title, BookRef(b))
             /\ trace' = trace \o << Ev("avl_insert", Lower(book[b].title)),
                                     Ev("hash_insert", book[b].isbn),
                                     Ev("trie_insert", Lower(book[b].title)) >>

\* add_book, lines 29-31
SyncAdd_Index ==
    /\ pc = "sync_add_index"
    /\ SyncInsertIndexes
    /\ pc' = "done"
    /\ UNCHANGED << book, hsize, loaded, engVars, race, histVars, atrie, trieHist, libVars, store,
                    used, op, cur, fields, old, snap >>

\* the three removals that open delete_book and update_book:
\*   dsa_engine.avl.delete(book.title.lower())
\*   dsa_engine.hash_table.delete(book.isbn)
\*   dsa_engine.trie.delete(book.title, book)
\* next is the position of the handler after them
SyncRemoveIndexes(b, next) ==
    LET h == HDelete(loaded, hsize, buckets, book[b].isbn)
    IN  /\ avl' = AVLDelete(avl, Lower(book[b].title))
        /\ buckets' = h.buckets
        /\ IF h.err # "none"
           THEN /\ err' = h.err
                /\ trie' = trie
                /\ trace' = << Ev("avl_delete", Lower(book[b].title)) >>
                /\ pc' = "done"
           ELSE /\ err' = "none"
                /\ trie' = TrieDelete(trie, book[b].title, BookRef(b))
                /\ trace' = << Ev("avl_delete", Lower(book[b].title)),
                               Ev("hash_delete", book[b].isbn),
                               Ev("trie_delete", Lower(book[b].title)) >>
                /\ pc' = next

\* delete_book, lines 41-43
SyncDelete_Index(b) ==
    /\ b \in store
    /\ Enter("delete_book", b, << >>, book)
    /\ SyncRemoveIndexes(b, "sync_del_store")
    /\ UNCHANGED << book, hsize, loaded, engVars, race, histVars, atrie, trieHist, libVars, store, used >>

\* delete_book, lines 46-47: db.delete(book); db.commit()
SyncDelete_Store ==
    /\ pc = "sync_del_store"
    /\ store' = store \ { cur }
    /\ trace' = Append(trace, Ev("store_delete", << >>))
    /\ pc' = "done"
    /\ UNCHANGED << book, hashVars, loaded, engVars, race, avlVars, trieVars, libVars, used, op, cur,
                    fields, old, snap, err >>

\* update_book, lines 58-60
SyncUpdate_Remove(b, f) ==
    /\ b \in store
    /\ "isbn" \in DOMAIN f => f.isbn \notin IsbnsInUse(book, store, b)
    /\ Enter("update_book", b, f, book)
    /\ SyncRemoveIndexes(b, "sync_upd_assign")
    /\ UNCHANGED << book, hsize, loaded, engVars, race, histVars, atrie, trieHist, libVars, store, used >>

\* update_book, lines 63-66: setattr for every field; db.commit(); db.refresh
SyncUpdate_Assign ==
    /\ pc = "sync_upd_assign"
    /\ book' = [book EXCEPT ![cur] = SetAttrs(book[cur], fields)]
    /\ trace' = Append(trace, Ev("assign", << >>))
    /\ pc' = "sync_upd_insert"
    /\ UNCHANGED << hashVars, loaded, engVars, race, avlVars, trieVars, libVars, store, used, op, cur,
                    fields, old, snap, err >>

\* update_book, lines 69-71
SyncUpdate_Insert ==
    /\ pc = "sync_upd_insert"
    /\ SyncInsertIndexes
    /\ pc' = "done"
    /\ UNCHANGED << book, hsize, loaded, engVars, race, histVars, atrie, trieHist, libVars, store,
                    used, op, cur, fields, old, snap >>

\* ------------------------------------------------------------------------
\* routes/admin.py, routes/librarian.py
\* ------------------------------------------------------------------------
\* admin_update_book, lines 153-159 (librarian_update_book likewise):
\* setattr for every field given; db.commit(); db.refresh(book)
\* book is the object db.query(Book) gives the request's session, not the
\* object of the startup session that the engine holds
RouteUpdateBook(b, f) ==
    /\ b \in store
    /\ "isbn" \in DOMAIN f => f.isbn \notin IsbnsInUse(book, store, b)
    /\ Enter("admin_update_book", b, f, book)
    /\ book' = [book EXCEPT ![b] = SetAttrs(book[b], f)]
    /\ trace' = << Ev("assign", << >>) >>
    /\ pc' = "done"
    /\ UNCHANGED << hashVars, loaded, engVars, race, avlVars, trieVars, libVars, store, used, err >>

\* the handler returns or raises: the request is over
Return ==
    /\ pc = "done"
    /\ pc' = "idle"
    /\ op' = "none"
    /\ cur' = 0
    /\ fields' = << >>
    /\ old' = NoEntry
    /\ trace' = << >>
    /\ snap' = NoSnap
    /\ err' = "none"
    /\ UNCHANGED << book, hashVars, loaded, engVars, race, avlVars, trieVars, libVars, store, used >>

\* the catalogs the table books holds when the process starts: rows 1..n
InitialCatalogs ==
    { bk \in [ BookIds -> { NoBook } \cup { NewBook(t, IsbnList[b], AuthorOf(b)) :
                                             t \in Titles, b \in BookIds } ] :
        \E n \in 0..MaxBooks :
            \A b \in BookIds :
                IF b <= n
                THEN bk[b] # NoBook /\ bk[b].isbn = IsbnList[b]
                                    /\ bk[b].author = AuthorOf(b)
                ELSE bk[b] = NoBook }

Init ==
    /\ book \in InitialCatalogs
    /\ loaded = book
    /\ store = { b \in BookIds : book[b] # NoBook }
    /\ used = store
    /\ HashNew(DefaultSize)
    /\ AvlNew
    /\ TrieNew
    /\ EngineNew
    /\ race = NoRace
    /\ LibNew
    /\ pc = "boot"
    /\ op = "none"
    /\ cur = 0
    /\ fields = << >>
    /\ old = NoEntry
    /\ trace = << >>
    /\ snap = NoSnap
    /\ err = "none"

Next ==
    \/ Startup
    \/ \E t \in Titles : SyncAdd_Persist(t)
    \/ SyncAdd_Index
    \/ \E b \in BookIds : SyncDelete_Index(b)
    \/ SyncDelete_Store
    \/ \E b \in BookIds, f \in UpdatedFields : SyncUpdate_Remove(b, f)
    \/ SyncUpdate_Assign
    \/ SyncUpdate_Insert
    \/ \E b \in BookIds, f \in UpdatedFields : RouteUpdateBook(b, f)
    \/ Return

\* the engine behind core/synchronizer.py and the routes that bypass it
Spec == Init /\ [][Next]_vars

\* ------------------------------------------------------------------------
\* core/engine.py: the searches and their metrics
\* ------------------------------------------------------------------------
\* the four structures of the engine
EngineIndexes == << avl, buckets, trie, atrie >>

\* a search that counts itself under two counters
Counted_TwoKinds(m, kind, elapsed) ==
    [m EXCEPT ![kind] = @ + 1, !.title_searches = @ + 1,
              !.total_search_time_ms = @ + elapsed]

\* self.metrics[kind] += 1; self.metrics["total_search_time_ms"] += elapsed_ms
Counted(m, kind, elapsed) ==
    [m EXCEPT ![kind] = @ + 1, !.total_search_time_ms = @ + elapsed]

\* self.metrics["total_search_time_ms"] += elapsed_ms
Timed(m, elapsed) == [m EXCEPT !.total_search_time_ms = @ + elapsed]

\* a search of the engine is served: elapsed_ms is whatever the clock gives
EngineCall(method, arg, res, after(_, _)) ==
    /\ pc = "idle"
    /\ \E elapsed \in 0..1 :
         /\ metrics.total_search_time_ms + elapsed <= MaxTicks
         /\ metrics' = after(metrics, elapsed)
    /\ ecall' = [method |-> method, arg |-> arg, res |-> res, pre |-> metrics,
                 idx |-> EngineIndexes]
    /\ UNCHANGED << book, loaded, hashVars, avlVars, trieVars, libVars, ctlVars, race >>

\* DSAEngine.search_by_isbn: an exception of hash_table.get leaves the
\* method before the counters are touched
EngineSearchByIsbn(isbn) ==
    LET r == SearchByIsbn(isbn)
    IN  /\ metrics.isbn_searches < MaxSearches
        /\ IF r.err = "none"
           THEN EngineCall("search_by_isbn", isbn, r.value,
                           LAMBDA m, e : Counted(m, "isbn_searches", e))
           ELSE EngineCall("search_by_isbn", isbn, [kind |-> r.err, id |-> 0],
                           LAMBDA m, e : m)

\* DSAEngine.search_by_title_exact
EngineSearchByTitleExact(title) ==
    /\ metrics.title_searches < MaxSearches
    /\ EngineCall("search_by_title_exact", title, SearchByTitleExact(title),
                  LAMBDA m, e : Counted(m, "title_searches", e))

\* DSAEngine.search_by_title_prefix
EngineSearchByTitlePrefix(prefix) ==
    /\ metrics.title_searches < MaxSearches
    /\ EngineCall("search_by_title_prefix", prefix, SearchByTitlePrefix(prefix),
                  LAMBDA m, e : Counted(m, "title_searches", e))

\* DSAEngine.search_by_author_prefix
EngineSearchByAuthorPrefix(prefix) ==
    /\ metrics.author_searches < MaxSearches
    /\ EngineCall("search_by_author_prefix", prefix, SearchByAuthorPrefix(prefix),
                  LAMBDA m, e : Counted(m, "author_searches", e))

\* DSAEngine.get_all_sorted
EngineGetAllSorted ==
    EngineCall("get_all_sorted", << >>, GetAllSorted, Timed)

\* DSAEngine.get_range
EngineGetRange(min_key, max_key) ==
    EngineCall("get_range", << min_key, max_key >>, GetRange(min_key, max_key),
               Timed)

NextEngine ==
    \/ Startup
    \/ \E isbn \in ISBNs : EngineSearchByIsbn(isbn)
    \/ \E title \in Titles : EngineSearchByTitleExact(title)
    \/ \E prefix \in SearchPrefixes : EngineSearchByTitlePrefix(prefix)
    \/ \E prefix \in SearchPrefixes : EngineSearchByAuthorPrefix(prefix)
    \/ EngineGetAllSorted
    \/ \E min_key, max_key \in RangeBounds : EngineGetRange(min_key, max_key)

\* the engine loaded at startup and searched by the member routes
SpecEngine == Init /\ [][NextEngine]_vars

\* ------------------------------------------------------------------------
\* services/library.py
\* ------------------------------------------------------------------------
\* add_new_book, lines 47-49: db.add(book); db.commit(); db.refresh(book)
LibAdd_Persist(t) ==
    /\ used # BookIds
    /\ IsbnList[Fresh] \notin IsbnsInUse(book, store, 0)
    /\ book' = [book EXCEPT ![Fresh] = NewBook(t, IsbnList[Fresh], AuthorOf(Fresh))]
    /\ Enter("add_new_book", Fresh, << >>, book')
    /\ used' = used \cup { Fresh }
    /\ store' = store \cup { Fresh }
    /\ trace' = << Ev("store_add", << >>) >>
    /\ pc' = "lib_add_index"
    /\ UNCHANGED << hashVars, loaded, engVars, race, avlVars, trieVars, libVars, err >>

\* add_new_book, lines 52-54:
\*   avl_titles.insert(book.title, book.book_id)
\*   hash_isbn.insert(book.isbn, book.book_id)
\*   trie_titles.insert(book.title, book, db)
LibAdd_Index ==
    LET b == cur
        h == HInsert(book, DefaultSize, lbuckets, book[b].isbn, IntVal(b))
    IN  /\ pc = "lib_add_index"
        /\ lavl' = AVLInsert(lavl, book[b].title, IntVal(b))
        /\ lbuckets' = h.buckets
        /\ IF h.err # "none"
           THEN /\ err' = h.err
                /\ ltrie' = ltrie
                /\ trace' = Append(trace, Ev("avl_insert", book[b].title))
           ELSE /\ err' = "none"
                /\ ltrie' = TrieInsert(ltrie, book[b].title, BookRef(b))
                /\ trace' = trace \o << Ev("avl_insert", book[b].title),
                                        Ev("hash_insert", book[b].isbn),
                                        Ev("trie_insert", Lower(book[b].title)) >>
        /\ pc' = "done"
        /\ UNCHANGED << book, hashVars, loaded, engVars, race, avlVars, trieVars, store, used, op,
                        cur, fields, old, snap >>

\* remove_book, lines 61-63:
\*   avl_titles.delete(book.title)
\*   hash_isbn.delete(book.isbn)
\*   trie_titles.delete(book.title, book)
\* next is the position of the handler after them
LibRemoveIndexes(b, next) ==
    LET h == HDelete(book, DefaultSize, lbuckets, book[b].isbn)
    IN  /\ lavl' = AVLDelete(lavl, book[b].title)
        /\ lbuckets' = h.buckets
        /\ IF h.err # "none"
           THEN /\ err' = h.err
                /\ ltrie' = ltrie
                /\ trace' = Append(trace, Ev("avl_delete", book[b].title))
                /\ pc' = "done"
           ELSE /\ err' = "none"
                /\ ltrie' = TrieDelete(ltrie, book[b].title, BookRef(b))
                /\ trace' = trace \o << Ev("avl_delete", book[b].title),
                                        Ev("hash_delete", book[b].isbn),
                                        Ev("trie_delete", Lower(book[b].title)) >>
                /\ pc' = next

\* remove_book called by admin_delete_book / librarian_delete_book
LibRemove_Index(b) ==
    /\ b \in store
    /\ Enter("remove_book", b, << >>, book)
    /\ trace = << >>
    /\ LibRemoveIndexes(b, "lib_rem_store")
    /\ UNCHANGED << book, hashVars, loaded, engVars, race, avlVars, trieVars, store, used >>

\* remove_book, lines 65-66: db.delete(book); db.commit()
LibRemove_Store ==
    /\ pc \in { "lib_rem_store", "lib_upd_store" }
    /\ store' = store \ { cur }
    /\ trace' = Append(trace, Ev("store_delete", << >>))
    /\ pc' = IF pc = "lib_rem_store" THEN "done" ELSE "lib_upd_add"
    /\ UNCHANGED << book, hashVars, loaded, engVars, race, avlVars, trieVars, libVars, used, op, cur,
                    fields, old, snap, err >>

\* update_existing_book, lines 72-75: setattr for every field; db.commit();
\* db.refresh(book); lines 79-81 follow if title or isbn is among the fields
LibUpdate_Assign(b, f) ==
    /\ b \in store
    /\ "isbn" \in DOMAIN f => f.isbn \notin IsbnsInUse(book, store, b)
    /\ Enter("update_existing_book", b, f, book)
    /\ book' = [book EXCEPT ![b] = SetAttrs(book[b], f)]
    /\ trace' = << Ev("assign", << >>) >>
    /\ pc' = IF "title" \in DOMAIN f \/ "isbn" \in DOMAIN f
             THEN "lib_upd_remove" ELSE "done"
    /\ UNCHANGED << hashVars, loaded, engVars, race, avlVars, trieVars, libVars, store, used, err >>

\* update_existing_book, line 80: remove_book(db, book), its index part
LibUpdate_Remove ==
    /\ pc = "lib_upd_remove"
    /\ LibRemoveIndexes(cur, "lib_upd_store")
    /\ UNCHANGED << book, hashVars, loaded, engVars, race, avlVars, trieVars, store, used, op, cur,
                    fields, old, snap >>

\* update_existing_book, line 81: add_new_book(db, book); the session refuses
\* db.add of an instance whose deletion it has committed (InvalidRequestError)
LibUpdate_Add ==
    /\ pc = "lib_upd_add"
    /\ err' = "InvalidRequestError"
    /\ pc' = "done"
    /\ UNCHANGED << book, hashVars, loaded, engVars, race, avlVars, trieVars, libVars, store, used,
                    op, cur, fields, old, trace, snap >>

NextLibrary ==
    \/ Startup
    \/ \E t \in Titles : LibAdd_Persist(t)
    \/ LibAdd_Index
    \/ \E b \in BookIds : LibRemove_Index(b)
    \/ LibRemove_Store
    \/ \E b \in BookIds, f \in UpdatedFields : LibUpdate_Assign(b, f)
    \/ LibUpdate_Remove
    \/ LibUpdate_Add
    \/ \E b \in BookIds, f \in UpdatedFields : RouteUpdateBook(b, f)
    \/ Return

\* the routes and services/library.py, beside the engine loaded at startup
SpecLibrary == Init /\ [][NextLibrary]_vars

\* ------------------------------------------------------------------------
\* request threads interleaved: dsa/avl.py AVLTree.insert, line 37
\*     self.root = self._insert(self.root, key, value)
\* called by add_new_book (services/library.py, line 52) on avl_titles; the
\* routes are plain functions, which the server runs in its thread pool.
\* ------------------------------------------------------------------------
\* the root a thread read: the key of the node, << >> for None
RootRef(root) == IF root = Nil THEN << >> ELSE root.key

\* the node a thread holds, as it is now: _insert changes nodes in place and
\* never removes one, so the node is the one of that key in the tree
HeldNode_Reread(root, ref) == root

HeldNode(root, ref) == IF ref = << >> THEN Nil ELSE SearchNode(root, ref)

\* line 37, the argument self.root is evaluated.  Once a call has replaced
\* the root by a node that was not the root, the threads are followed no
\* further.
RaceLoad(t, key) ==
    /\ ~race.stale
    /\ race.th[t].pc = "out"
    /\ race' = [race EXCEPT !.th[t] =
                    [pc |-> "in", ref |-> RootRef(lavl), key |-> key,
                     value |-> IntVal(t)]]
    /\ UNCHANGED << book, loaded, engVars, hashVars, avlVars, trieVars, lavl, lbuckets,
                    ltrie, ctlVars >>

\* line 37, _insert runs from the node the thread holds, and its result is
\* assigned to self.root
RaceFinish(t) ==
    /\ ~race.stale
    /\ race.th[t].pc = "in"
    /\ LET me == race.th[t]
       IN  /\ lavl' = InsertRec(HeldNode(lavl, me.ref), me.key, me.value).t
           /\ race' = [th |-> [race.th EXCEPT ![t] = NoThread],
                       done |-> race.done \cup { me.key },
                       stale |-> me.ref # RootRef(lavl),
                       last |-> [key |-> me.key, root |-> RootRef(lavl)]]
    /\ UNCHANGED << book, loaded, engVars, hashVars, avlVars, trieVars, lbuckets, ltrie,
                    ctlVars >>

\* requests are served once the startup has completed.  update_book and the
\* threads share no variable, so every state of the two is a state of some
\* interleaving in which the threads went first; the others are left out.
NextRace ==
    \/ Startup
    \/ \E t \in Threads, key \in RaceKeys : pc = "idle" /\ RaceLoad(t, key)
    \/ \E t \in Threads : pc = "idle" /\ RaceFinish(t)
    \/ \E b \in BookIds, f \in UpdatedFields : race.stale /\ SyncUpdate_Remove(b, f)
    \/ SyncUpdate_Assign
    \/ SyncUpdate_Insert

\* two threads inside avl_titles.insert and one update_book request, beside
\* the readers of the engine
SpecRace == Init /\ [][NextRace]_vars

\* ------------------------------------------------------------------------
\* C1
\* ------------------------------------------------------------------------
\* C1: after any sequence of HashTable.insert / HashTable.delete, get(k)
\* returns without error the value of the most recent insert(k, v) not
\* followed by delete(k), and None when there is none, whatever the
\* attributes of the stored value are.
C1_GetReturnsLastInsert ==
    \A k \in ISBNs :
        HGet(book, hsize, buckets, k) = [value |-> hmap[k], err |-> "none"]

\* ------------------------------------------------------------------------
\* Stand-alone ordered index: any sequence of insert / delete / search
\* ------------------------------------------------------------------------
InitAVL ==
    /\ book = HashHeap
    /\ loaded = HashHeap
    /\ HashNew(DefaultSize)
    /\ AvlNew
    /\ NoCatalog

AvlInsert(k, v) ==
    LET r == InsertRec(avl, k, v)
    IN  /\ avl' = r.t
        /\ arots' = Len(r.rots)
        /\ acall' = [method |-> "insert", key |-> k, pre |-> avl, log |-> r.rots]
        /\ amap' = [amap EXCEPT ![k] = v]
        /\ ares' = None
        /\ UNCHANGED << book, hashVars, loaded, engVars, race, trieVars, libVars, ctlVars >>

AvlDelete(k) ==
    LET r == DeleteRec(avl, k)
    IN  /\ avl' = r.t
        /\ arots' = Len(r.rots)
        /\ acall' = [method |-> "delete", key |-> k, pre |-> avl, log |-> r.rots]
        /\ amap' = [amap EXCEPT ![k] = None]
        /\ ares' = None
        /\ UNCHANGED << book, hashVars, loaded, engVars, race, trieVars, libVars, ctlVars >>

AvlSearch(k) ==
    /\ ares' = AVLSearch(avl, k)
    /\ arots' = 0
    /\ acall' = [method |-> "search", key |-> k, pre |-> avl, log |-> << >>]
    /\ UNCHANGED << book, hashVars, loaded, engVars, race, avl, amap, trieVars, libVars, ctlVars >>

NextAVL ==
    \/ \E k \in AvlKeys, v \in AvlValues : AvlInsert(k, v)
    \/ \E k \in AvlKeys : AvlDelete(k)
    \/ \E k \in AvlKeys : AvlSearch(k)

SpecAVL == InitAVL /\ [][NextAVL]_vars

\* ------------------------------------------------------------------------
\* C2
\* ------------------------------------------------------------------------
\* C2: after any sequence of AVLTree.insert / AVLTree.delete, search(k)
\* returns the value of the most recent insert(k, v) not followed by
\* delete(k) and None otherwise; no rotation makes a present key unreachable.
C2_SearchReturnsLastInsert ==
    \A k \in AvlKeys : AVLSearch(avl, k) = amap[k]

\* an insert or delete has just rotated twice, in a tree that also holds a
\* key whose value was overwritten by a later insert
C2_Witness ==
    /\ arots >= 2
    /\ Cardinality({ k \in AvlKeys : amap[k] # None }) >= 4
    /\ \E k \in AvlKeys : amap[k] = BookRef(2) /\ AVLSearch(avl, k) = BookRef(2)

\* ------------------------------------------------------------------------
\* C3
\* ------------------------------------------------------------------------
\* C3: after any sequence of AVLTree.insert / AVLTree.delete every node has
\* balance factor height(left) - height(right) in {-1, 0, 1}, the heights
\* being those of the subtrees.
C3_Balanced ==
    \A n \in Subtrees(avl) :
        /\ Depth(n.left) - Depth(n.right) \in { -1, 0, 1 }
        /\ GetBalance(n) \in { -1, 0, 1 }

\* a delete has just rebalanced the tree by a rotation
C3_Witness ==
    /\ arots >= 1
    /\ \E k \in AvlKeys : amap[k] = None /\ ares = None
    /\ Depth(avl) = 2
    /\ Cardinality(Subtrees(avl)) = 3

\* ------------------------------------------------------------------------
\* C4
\* ------------------------------------------------------------------------
IsStrictlyIncreasing(keys) ==
    \A i \in 1..(Len(keys) - 1) : StrLess(keys[i], keys[i + 1])

\* C4: after any sequence of AVLTree.insert / AVLTree.delete the keys visited
\* by the in-order traversal are strictly increasing, they are the keys
\* present, and a left or right rotation at any node of the tree leaves the
\* in-order key sequence of that subtree as it was.
C4_SearchTreeOrder ==
    /\ IsStrictlyIncreasing(InorderKeys(avl))
    /\ { InorderKeys(avl)[i] : i \in 1..Len(InorderKeys(avl)) }
           = { k \in AvlKeys : amap[k] # None }
    /\ \A n \in Subtrees(avl) :
        /\ n.left # Nil => InorderKeys(RightRotate(n)) = InorderKeys(n)
        /\ n.right # Nil => InorderKeys(LeftRotate(n)) = InorderKeys(n)

\* a tree of five keys whose last operation rotated
C4_Witness ==
    /\ Len(InorderKeys(avl)) >= 5
    /\ arots >= 1

\* ------------------------------------------------------------------------
\* Observations of the engine used by the claims on the coordinator
\* ------------------------------------------------------------------------
SeqSet(q) == { q[i] : i \in 1..Len(q) }

StoreRefs == { BookRef(b) : b \in store }

\* every ISBN a Book can hold
AllIsbns == ISBNs \cup { SpareIsbn } \cup { IsbnList[b] : b \in BookIds }

Prefixes(w) == { SubSeq(w, 1, n) : n \in 0..Len(w) }

\* the engine returns record r under title t / under ISBN i
UnderTitle(r, t) ==
    /\ SearchByTitleExact(t) = r
    /\ InSeq(r, SearchByTitlePrefix(t))

UnderIsbn(r, i) == SearchByIsbn(i) = [value |-> r, err |-> "none"]

KeyFields == { "title", "isbn" }

\* ------------------------------------------------------------------------
\* C5
\* ------------------------------------------------------------------------
\* C5: after an add, remove or update of the coordinator has returned, the
\* records of get_all_sorted(), the records search_by_isbn reaches and the
\* records of search_by_title_prefix("") are each exactly the records of
\* the store.
C5_IndexesMatchStore ==
    (pc = "done" /\ err = "none" /\ op \in { "add_book", "delete_book", "update_book" })
        => /\ SeqSet(GetAllSorted) = StoreRefs
           /\ { SearchByIsbn(i).value : i \in AllIsbns } \ { None } = StoreRefs
           /\ SeqSet(SearchByTitlePrefix(<< >>)) = StoreRefs

\* ------------------------------------------------------------------------
\* C6
\* ------------------------------------------------------------------------
\* C6: after an update that changed the title or the ISBN of a book has
\* returned, whichever handler served it, no index returns the book under
\* the old key (exact title, a prefix of the old title that is no prefix of
\* the new one, the old ISBN) and every index returns it under the new key.
C6_UpdateMovesKeys ==
    LET r == BookRef(cur)
        new == KeysOf(book[cur])
    IN  (/\ pc = "done"
         /\ err = "none"
         /\ op \in { "update_book", "update_existing_book", "admin_update_book" }
         /\ old # new)
        => /\ Lower(old.title) # Lower(new.title) =>
                /\ SearchByTitleExact(old.title) # r
                /\ \A q \in Prefixes(Lower(old.title)) \ Prefixes(Lower(new.title)) :
                       ~InSeq(r, SearchByTitlePrefix(q))
           /\ old.isbn # new.isbn => SearchByIsbn(old.isbn).value # r
           /\ UnderTitle(r, new.title)
           /\ UnderIsbn(r, new.isbn)

\* ------------------------------------------------------------------------
\* C7
\* ------------------------------------------------------------------------
\* the key the ordered index is given for a title: lowercased by
\* core/synchronizer.py, as it is by services/library.py
TitleKey(name, t) == IF name = "update_existing_book" THEN t ELSE Lower(t)

\* C7: an update that changes the title or the ISBN performs the three index
\* removals with the pre-change keys, then assigns and persists the fields,
\* then performs the three index insertions with the post-change keys.
C7_UpdateOrder ==
    LET new == KeysOf(book[cur])
    IN  (/\ pc = "done"
         /\ op \in { "update_book", "update_existing_book" }
         /\ old # new)
        => trace = << Ev("avl_delete", TitleKey(op, old.title)),
                      Ev("hash_delete", old.isbn),
                      Ev("trie_delete", Lower(old.title)),
                      Ev("assign", << >>),
                      Ev("avl_insert", TitleKey(op, new.title)),
                      Ev("hash_insert", new.isbn),
                      Ev("trie_insert", Lower(new.title)) >>

\* ------------------------------------------------------------------------
\* C8
\* ------------------------------------------------------------------------
\* C8: add persists the record, then inserts it into the three indexes; it
\* never ends with the record in the store and missing from an index: the
\* record is then returned by the exact-title search, the ISBN lookup and
\* the title-prefix search.
C8_AddIndexesRecord ==
    (pc = "done" /\ op = "add_book" /\ cur \in store)
        => /\ UnderTitle(BookRef(cur), book[cur].title)
           /\ UnderIsbn(BookRef(cur), book[cur].isbn)
           /\ trace = << Ev("store_add", << >>),
                         Ev("avl_insert", Lower(book[cur].title)),
                         Ev("hash_insert", book[cur].isbn),
                         Ev("trie_insert", Lower(book[cur].title)) >>

\* ------------------------------------------------------------------------
\* C9
\* ------------------------------------------------------------------------
\* C9: remove takes the record out of the three indexes under its current
\* title and ISBN, then deletes it from the store; once it has returned no
\* index lookup returns the record and the store does not hold it.
C9_RemoveLeavesNothing ==
    LET r == BookRef(cur)
    IN  (pc = "done" /\ err = "none" /\ op = "delete_book")
        => /\ trace = << Ev("avl_delete", Lower(old.title)),
                         Ev("hash_delete", old.isbn),
                         Ev("trie_delete", Lower(old.title)),
                         Ev("store_delete", << >>) >>
           /\ cur \notin store
           /\ ~InSeq(r, GetAllSorted)
           /\ \A i \in AllIsbns : SearchByIsbn(i).value # r
           /\ ~InSeq(r, SearchByTitlePrefix(<< >>))

\* ------------------------------------------------------------------------
\* C10
\* ------------------------------------------------------------------------
\* C10: an update whose fields include neither title nor isbn leaves the
\* tree, the chains and the trie as they were when it was called.
C10_NonKeyUpdateKeepsIndexes ==
    (/\ pc = "done"
     /\ op \in { "update_book", "update_existing_book", "admin_update_book" }
     /\ DOMAIN fields \cap KeyFields = { })
        => IndexSnapshot = snap

\* ------------------------------------------------------------------------
\* C11
\* ------------------------------------------------------------------------
\* the structures of the engine as one record
Engine ==
    [avl |-> avl, buckets |-> buckets, trie |-> trie, atrie |-> atrie,
     err |-> "none"]

\* the Book objects that exist
Records == { b \in BookIds : book[b] # NoBook }

\* the three removals of a record by its current keys, as delete_book and
\* update_book perform them, on the record e of the structures
RemoveOne(e, bk, b) ==
    LET h == HDelete(bk, DefaultSize, e.buckets, bk[b].isbn)
    IN  IF e.err # "none" THEN e
        ELSE IF h.err # "none"
        THEN [e EXCEPT !.avl = AVLDelete(e.avl, Lower(bk[b].title)),
                       !.err = h.err]
        ELSE [e EXCEPT !.avl = AVLDelete(e.avl, Lower(bk[b].title)),
                       !.buckets = h.buckets,
                       !.trie = TrieDelete(e.trie, bk[b].title, BookRef(b))]

\* the three insertions of a record, as load_books performs them
InsertOne(e, bk, b) == IF e.err # "none" THEN e ELSE LoadOne(e, bk, b)

\* what the reads of the three indexes return: every exact-title lookup,
\* every ISBN lookup, the sorted listing and every title-prefix search
Observe(e, bk) ==
    [exact  |-> [ t \in Titles |-> AVLSearch(e.avl, Lower(t)) ],
     isbn   |-> [ i \in AllIsbns |-> HGet(bk, DefaultSize, e.buckets, i) ],
     sorted |-> InorderTraversal(e.avl),
     prefix |-> [ t \in Titles |->
                    [ q \in Prefixes(t) |-> PrefixSearch(e.trie, q) ] ],
     err    |-> e.err]

\* the Book objects the indexes hold once record b is inserted: b as the
\* caller holds it, the others as the startup session loaded them
HeapWith(b) == [ x \in BookIds |-> IF x = b THEN book[b] ELSE loaded[x] ]

RoundTrip(b) ==
    InsertOne(RemoveOne(InsertOne(Engine, HeapWith(b), b), HeapWith(b), b),
              HeapWith(b), b)

\* C11 as stated: from every reachable state of the indexes and for every
\* record r, insert r; remove r; insert r is observed as insert r alone:
\* same exact lookups, ISBN lookups, sorted listing and prefix searches, in
\* the same order.
C11_RoundTripAnyState ==
    \A b \in Records :
        Observe(RoundTrip(b), HeapWith(b))
            = Observe(InsertOne(Engine, HeapWith(b), b), HeapWith(b))

\* ------------------------------------------------------------------------
\* C12
\* ------------------------------------------------------------------------
\* C12: prefix_search(p) returns exactly the payloads whose inserted word,
\* lowercased, starts with p lowercased, each once per insertion not yet
\* deleted, and nothing else: the empty list when no word has the prefix.
C12_PrefixSearchExact ==
    LET q == Lower(tcall.word)
        under == { w \in TrieKeys : Len(q) <= Len(w) /\ SubSeq(w, 1, Len(q)) = q }
        times(v) == Cardinality({ i \in 1..Len(tres.books) : tres.books[i] = v })
    IN  tcall.method = "prefix_search" =>
            /\ \A i \in 1..Len(tres.books) : tres.books[i] \in TrieValues
            /\ \A v \in TrieValues :
                   times(v) = SumOver([ w \in TrieKeys |-> twords[w][v] ], under)

\* "Dune" and "Dune Messiah" are held; prefix "Dune " returned only the second
C12_Witness ==
    /\ tcall = [method |-> "prefix_search", word |-> DuneSpace, value |-> None]
    /\ twords[Lower(Dune)][BookRef(1)] = 1
    /\ twords[Lower(DuneMessiah)][BookRef(2)] = 1
    /\ tres.books = << BookRef(2) >>
    /\ PrefixSearch(trie, Dune) = << BookRef(1), BookRef(2) >>

\* ------------------------------------------------------------------------
\* C13
\* ------------------------------------------------------------------------
\* C13: after any sequence of insert and delete, prefix_search("") returns
\* the payloads of every word the trie holds, and prefix_search(w) of a held
\* word w returns at least every payload inserted under exactly w and not
\* yet deleted.
C13_SearchCoversHeldWords ==
    LET times(v, q) == Cardinality({ i \in 1..Len(q) : q[i] = v })
        all == PrefixSearch(trie, << >>)
    IN  /\ Len(all) = Held
        /\ \A v \in TrieValues :
               times(v, all) = SumOver([ w \in TrieKeys |-> twords[w][v] ], TrieKeys)
        /\ \A w \in TrieWords, v \in TrieValues :
               times(v, PrefixSearch(trie, w)) >= twords[Lower(w)][v]

\* a delete has removed the payload of "a" while "ab" stays held below it
C13_Witness ==
    /\ tcall.method = "delete"
    /\ tcall.word = <<97>>
    /\ tres.deleted
    /\ twords[<<97, 98>>][BookRef(2)] = 1
    /\ PrefixSearch(trie, <<97>>) = << BookRef(2) >>
    /\ Len(PrefixSearch(trie, << >>)) = 2

\* ------------------------------------------------------------------------
\* C14
\* ------------------------------------------------------------------------
\* C14: deleting a key that is not present does not raise and changes
\* nothing: HashTable.delete of a key with no insert outstanding leaves the
\* chains as they are, AVLTree.delete of such a key leaves the tree as it is,
\* and Trie.delete of a payload not held under the word returns False and
\* leaves the nodes as they are; so every lookup returns what it returned.
C14_DeleteAbsentIsNoOp ==
    /\ \A k \in ISBNs :
           hmap[k] = None =>
               HDelete(book, hsize, buckets, k) = [buckets |-> buckets, err |-> "none"]
    /\ \A k \in AvlKeys :
           amap[k] = None => AVLDelete(avl, k) = avl
    /\ \A w \in TrieWords, v \in TrieValues :
           twords[Lower(w)][v] = 0 =>
               TrieDeleteRec(trie, Lower(w), 1, v) = [node |-> trie, deleted |-> FALSE]

\* ------------------------------------------------------------------------
\* C15
\* ------------------------------------------------------------------------
\* C15: Trie.delete(word, value) returns True exactly when value was in the
\* payload list of the terminal node of word; it then removes one occurrence
\* of value from that list and nothing else, and clears the terminal flag
\* only if the list became empty; when it returns False the trie is as it
\* was.
C15_DeleteOneOccurrence ==
    LET w == Lower(tcall.word)
        before == NodeAt(tpre, w, 1)
        after == NodeAt(trie, w, 1)
    IN  tcall.method = "delete" =>
            /\ tres.deleted = (before.is_end_of_word /\ InSeq(tcall.value, before.books))
            /\ ~tres.deleted => trie = tpre
            /\ tres.deleted =>
                   /\ \E i \in 1..Len(before.books) :
                          /\ before.books[i] = tcall.value
                          /\ after.books = RemoveAt(before.books, i)
                   /\ after.is_end_of_word = (after.books # << >>)
                   /\ \A u \in TrieKeys \ { w } :
                          /\ NodeAt(trie, u, 1).books = NodeAt(tpre, u, 1).books
                          /\ NodeAt(trie, u, 1).is_end_of_word
                                 = NodeAt(tpre, u, 1).is_end_of_word

\* a delete has removed one of two occurrences of the value from a list that
\* also holds another payload
C15_Witness ==
    LET before == NodeAt(tpre, Lower(tcall.word), 1)
        after == NodeAt(trie, Lower(tcall.word), 1)
    IN  /\ tcall.method = "delete"
        /\ tres.deleted
        /\ Len(before.books) = 3
        /\ Cardinality({ i \in 1..3 : before.books[i] = tcall.value }) = 2
        /\ Len(after.books) = 2
        /\ after.is_end_of_word

\* ------------------------------------------------------------------------
\* C16
\* ------------------------------------------------------------------------
\* C16: after any sequence of insert and delete no node but the root is
\* without children and not terminal, and the trie has a node for a string
\* exactly when the string is a prefix of a word it still holds: a delete
\* prunes the nodes that existed for the deleted word only.
C16_NoDanglingNodes ==
    LET held(u) == \E v \in TrieValues : twords[u][v] > 0
        hasNode(w, i) == ChildIndex(NodeAt(trie, SubSeq(w, 1, i - 1), 1), w[i]) # 0
    IN  /\ \A n \in Descendants(trie) : n.children # << >> \/ n.is_end_of_word
        /\ \A w \in TrieKeys : \A i \in 1..Len(w) :
               hasNode(w, i) <=>
                   \E u \in TrieKeys :
                       held(u) /\ Len(u) >= i /\ SubSeq(u, 1, i) = SubSeq(w, 1, i)

\* the delete of "Dune Messiah" has pruned the eight nodes below "dune",
\* which is still held
C16_Witness ==
    /\ tcall.method = "delete"
    /\ tcall.word = DuneMessiah
    /\ tres.deleted
    /\ NodeAt(tpre, Lower(DuneMessiah), 1).is_end_of_word
    /\ NodeAt(trie, Lower(Dune), 1).is_end_of_word
    /\ NodeAt(trie, Lower(Dune), 1).children = << >>

\* ------------------------------------------------------------------------
\* C17
\* ------------------------------------------------------------------------
\* C17: HashTable.insert(k, v) completes and emits the collision signal
\* exactly when k has no insert outstanding and the bucket of k already
\* holds an entry: no signal when it overwrites k or fills an empty bucket,
\* one signal for the second of two keys of the same bucket.
C17_CollisionSignal ==
    \A k \in ISBNs, v \in HashValues :
        LET r == HInsert(book, hsize, buckets, k, v)
        IN  /\ r.err = "none"
            /\ r.collision = (hmap[k] = None
                                /\ Bucket(buckets, Hash(k, hsize)) # << >>)

\* ------------------------------------------------------------------------
\* C18
\* ------------------------------------------------------------------------
\* C18: a tree of three keys has the median key at the root, the smallest
\* key as its left child and the largest as its right child, both leaves,
\* whatever the order of the insertions; and insert("c") into the tree that
\* insert("a"), insert("b") built prints one rotation, a left rotation on
\* the old root "a".
C18_ThreeKeys ==
    LET keys == InorderKeys(avl)
        leaf(n, k) == n # Nil /\ n.key = k /\ n.left = Nil /\ n.right = Nil
    IN  /\ Len(keys) = 3 =>
               /\ avl.key = keys[2]
               /\ leaf(avl.left, keys[1])
               /\ leaf(avl.right, keys[3])
        /\ (/\ acall.method = "insert"
            /\ acall.key = <<99>>
            /\ acall.pre # Nil
            /\ acall.pre.key = <<97>>
            /\ acall.pre.left = Nil
            /\ leaf(acall.pre.right, <<98>>))
           => /\ acall.log = << [rot |-> "left", key |-> <<97>>] >>
              /\ keys = << <<97>>, <<98>>, <<99>> >>
              /\ avl.key = <<98>>

\* insert("c") has just rotated the tree of "a" and "b" into the tree of
\* root "b"
C18_Witness ==
    /\ acall.method = "insert"
    /\ acall.key = <<99>>
    /\ InorderKeys(acall.pre) = << <<97>>, <<98>> >>
    /\ acall.pre.key = <<97>>
    /\ acall.log = << [rot |-> "left", key |-> <<97>>] >>
    /\ avl.key = <<98>>
    /\ avl.left.key = <<97>>
    /\ avl.right.key = <<99>>

\* ------------------------------------------------------------------------
\* C19
\* ------------------------------------------------------------------------
\* the values of the nodes of the ordered index whose key k has
\* lo <= k <= hi, in in-order
KeysInRange(lo, hi) ==
    LET ns == SelectSeq(InorderNodes(avl),
                        LAMBDA n : StrLessEq(lo, n.key) /\ StrLessEq(n.key, hi))
    IN  [ i \in 1..Len(ns) |-> ns[i].value ]

\* C19 as stated: get_range(lo, hi) returns exactly the records of the
\* ordered index whose key k satisfies lo <= k <= hi, in ascending key
\* order, and the empty list when lo > hi.
C19_RangeByGivenBounds ==
    \A lo, hi \in RangeBounds :
        /\ GetRange(lo, hi) = KeysInRange(lo, hi)
        /\ StrLess(hi, lo) => GetRange(lo, hi) = << >>

\* C19, amended: get_range(lo, hi) returns exactly the records of the
\* ordered index whose key k (lowercased title at insertion time) satisfies
\* lower(lo) <= k <= lower(hi), in ascending key order, whatever happened to
\* the rows since: get_all_sorted() filtered by that key range, the empty
\* list when lower(lo) > lower(hi).
C19_RangeByLoweredBounds ==
    LET keys == InorderKeys(avl)
    IN  /\ \A i \in 1..(Len(keys) - 1) : StrLess(keys[i], keys[i + 1])
        /\ \A lo, hi \in RangeBounds :
              /\ GetRange(lo, hi) = KeysInRange(Lower(lo), Lower(hi))
              /\ StrLess(Lower(hi), Lower(lo)) => GetRange(lo, hi) = << >>

\* two titles are indexed, the row of one of them has been given another
\* title since, and get_range("ab", "B") returns the one record indexed
\* under "ab"
C19_Witness ==
    /\ pc = "idle"
    /\ InorderKeys(avl) = << <<97>>, <<97, 98>> >>
    /\ \E b \in BookIds : book[b].title # loaded[b].title
    /\ Len(GetRange(<<97, 98>>, <<66>>)) = 1
    /\ GetRange(<<97, 98>>, <<66>>) = << AVLSearch(avl, <<97, 98>>) >>

\* ------------------------------------------------------------------------
\* C20
\* ------------------------------------------------------------------------
\* C20: on every reachable state of the engine's structures and of the
\* structures of services/library.py, every read returns without an
\* exception, and returns None or the empty list for an absent key:
\* HashTable.get and search_by_isbn for an ISBN no stored record was inserted
\* under, AVLTree.search and search_by_title_exact for a key of no node,
\* prefix_search and the two prefix searches of the engine for a prefix with
\* no payload at or below its node, get_all_sorted on the empty tree and
\* get_range for a range that holds no key.
C20_ReadsNeverFail ==
    LET stored == UNION { { buckets[x][i] : i \in 1..Len(buckets[x]) } :
                          x \in DOMAIN buckets }
        nodeKeys(root) == { InorderKeys(root)[i] : i \in 1..Len(InorderKeys(root)) }
        bare(node) == \A n \in { node } \cup Descendants(node) : n.books = << >>
        trieReads(root) ==
            \A q \in TriePrefixes :
                bare(NodeAt(root, Lower(q), 1)) => PrefixSearch(root, q) = << >>
    IN  /\ \A i \in AllIsbns :
              /\ SearchByIsbn(i).err = "none"
              /\ (\A v \in stored : loaded[v.id].isbn # i)
                     => SearchByIsbn(i).value = None
        /\ \A i \in AllIsbns : HGet(book, DefaultSize, lbuckets, i).err = "none"
        /\ \A t \in Titles \cup RangeBounds :
              /\ Lower(t) \notin nodeKeys(avl) => SearchByTitleExact(t) = None
              /\ t \notin nodeKeys(lavl) => AVLSearch(lavl, t) = None
        /\ trieReads(trie)
        /\ trieReads(atrie)
        /\ trieReads(ltrie)
        /\ avl = Nil => GetAllSorted = << >>
        /\ \A lo, hi \in RangeBounds :
              (\A k \in nodeKeys(avl) :
                   ~(StrLessEq(Lower(lo), k) /\ StrLessEq(k, Lower(hi))))
                 => GetRange(lo, hi) = << >>

\* ------------------------------------------------------------------------
\* C21
\* ------------------------------------------------------------------------
\* what the method of the last search returns on the structures as they are
\* now
SearchAgain ==
    CASE ecall.method = "search_by_isbn" -> SearchByIsbn(ecall.arg).value
      [] ecall.method = "search_by_title_exact" -> SearchByTitleExact(ecall.arg)
      [] ecall.method = "search_by_title_prefix" -> SearchByTitlePrefix(ecall.arg)
      [] ecall.method = "search_by_author_prefix" -> SearchByAuthorPrefix(ecall.arg)
      [] ecall.method = "get_all_sorted" -> GetAllSorted
      [] ecall.method = "get_range" -> GetRange(ecall.arg[1], ecall.arg[2])

\* C21: a search of the engine leaves the four structures as they were and
\* changes nothing but the metrics; it returns what the same search returns
\* under the metrics it has left behind, so the result does not depend on
\* the metrics; search_by_isbn, search_by_title_exact, search_by_title_prefix
\* and search_by_author_prefix raise exactly one of the three counters, by
\* one, and get_all_sorted and get_range raise none; the time only grows.
C21_MetricsObserveOnly ==
    LET counters == { "isbn_searches", "title_searches", "author_searches" }
        raised == { c \in counters : metrics[c] # ecall.pre[c] }
    IN  ecall.method # "none" =>
            /\ EngineIndexes = ecall.idx
            /\ ecall.res = SearchAgain
            /\ metrics.total_search_time_ms >= ecall.pre.total_search_time_ms
            /\ \A c \in raised : metrics[c] = ecall.pre[c] + 1
            /\ Cardinality(raised)
                  = IF ecall.method \in { "get_all_sorted", "get_range" } THEN 0 ELSE 1
            /\ ecall.method = "search_by_isbn" => raised = { "isbn_searches" }
            /\ ecall.method = "search_by_author_prefix"
                  => raised = { "author_searches" }

\* a second ISBN search has returned a loaded book after other searches
\* were counted
C21_Witness ==
    /\ ecall.method = "search_by_isbn"
    /\ ecall.res # None
    /\ ecall.pre.isbn_searches = 1
    /\ metrics.isbn_searches = 2
    /\ metrics.title_searches = 2
    /\ metrics.author_searches = 1
    /\ metrics.total_search_time_ms > 0

\* ------------------------------------------------------------------------
\* C22
\* ------------------------------------------------------------------------
\* update_book has removed the record from the indexes and has not yet come
\* to its insertions
InUpdateWindow ==
    /\ op = "update_book"
    /\ pc \in { "sync_upd_assign", "sync_upd_insert" }

\* the searches by ISBN and by exact title returned the record when
\* update_book was entered
FoundAtEntry ==
    /\ HGet(loaded, hsize, snap.buckets, old.isbn).value = BookRef(cur)
    /\ AVLSearch(snap.avl, Lower(old.title)) = BookRef(cur)

\* the titles of completed avl_titles.insert calls that the tree does not hold
LostTitles == { k \in race.done : SearchNode(lavl, k) = Nil }

\* C22: nothing synchronizes the indexes.  A reader whose lookup falls
\* between the removals and the insertions of update_book is told that the
\* record is absent, by ISBN and by exact title, although the record is in
\* the store and was found when the update began.  Of the insertions into the
\* ordered index none is lost as long as every call wrote the root it had
\* read; a call that read the root before another call replaced it and
\* writes after loses the other call's root, an inserted title, unless it
\* inserts that very title.
C22_NoSynchronization ==
    /\ (InUpdateWindow /\ FoundAtEntry)
           => /\ cur \in store
              /\ SearchByIsbn(old.isbn) = [value |-> None, err |-> "none"]
              /\ SearchByTitleExact(old.title) = None
    /\ LostTitles # { } => race.stale
    /\ (race.stale /\ race.last.key # race.last.root)
           => /\ race.last.root \in LostTitles
              /\ race.last.key \notin LostTitles

\* a reader in the window of an update, after an insertion was lost
C22_Witness ==
    /\ InUpdateWindow
    /\ FoundAtEntry
    /\ cur \in store
    /\ SearchByIsbn(old.isbn).value = None
    /\ race.stale
    /\ race.last.root \in LostTitles
    /\ \A t \in Threads : race.th[t].pc = "out"

\* ------------------------------------------------------------------------
\* C23
\* ------------------------------------------------------------------------
\* C23: insert(k, v) with k already in the tree leaves as many nodes, each
\* with the key, the children and the height it had, performs no rotation,
\* and changes no value but that of the node of k, which becomes v.
C23_DuplicateKeyOverwrites ==
    LET before == InorderNodes(acall.pre)
        after == InorderNodes(avl)
        childKey(n) == IF n = Nil THEN << 0 >> ELSE n.key
    IN  (/\ acall.method = "insert"
         /\ \E i \in 1..Len(before) : before[i].key = acall.key)
        => /\ Len(after) = Len(before)
           /\ acall.log = << >>
           /\ \A i \in 1..Len(before) :
                 /\ after[i].key = before[i].key
                 /\ after[i].height = before[i].height
                 /\ childKey(after[i].left) = childKey(before[i].left)
                 /\ childKey(after[i].right) = childKey(before[i].right)
                 /\ after[i].value = IF before[i].key = acall.key
                                      THEN amap[acall.key]
                                      ELSE before[i].value

\* a key at the bottom of a tree of height 3 has just been inserted again,
\* with another value
C23_Witness ==
    /\ acall.method = "insert"
    /\ Height(acall.pre) = 3
    /\ AVLSearch(acall.pre, acall.key) # None
    /\ AVLSearch(acall.pre, acall.key) # AVLSearch(avl, acall.key)
    /\ acall.pre.key # acall.key
    /\ SearchNode(acall.pre, acall.key).height = 1

\* ------------------------------------------------------------------------
\* C24
\* ------------------------------------------------------------------------
\* C24: delete(k) with k in the tree leaves the keys it had without k, in
\* order, each with the value it had; when the node of k had two children
\* and the call rotated nothing, the tree holds in its place a node with the
\* key and the value of the in-order successor (the first node of the right
\* subtree), the same left subtree, and the right subtree without the
\* successor.
C24_DeleteRemovesExactlyKey ==
    LET pre == acall.pre
        k == acall.key
        keys == InorderKeys(pre)
        n == SearchNode(pre, k)
        succ == InorderNodes(n.right)[1]
    IN  (/\ acall.method = "delete"
         /\ \E i \in 1..Len(keys) : keys[i] = k)
        => /\ InorderKeys(avl) = SelectSeq(keys, LAMBDA j : j # k)
           /\ \A i \in 1..Len(keys) :
                 keys[i] # k => AVLSearch(avl, keys[i]) = AVLSearch(pre, keys[i])
           /\ AVLSearch(avl, k) = None
           /\ (n.left # Nil /\ n.right # Nil /\ acall.log = << >>)
                 => \E t \in Subtrees(avl) :
                        /\ t.key = succ.key
                        /\ t.value = succ.value
                        /\ t.left = n.left
                        /\ InorderKeys(t.right)
                             = SelectSeq(InorderKeys(n.right), LAMBDA j : j # succ.key)
                        /\ InorderTraversal(t.right)
                             = Tail(InorderTraversal(n.right))

\* the root of a tree of five keys has just been deleted; it had two
\* children and its successor was not its right child
C24_Witness ==
    /\ acall.method = "delete"
    /\ acall.pre # Nil
    /\ acall.key = acall.pre.key
    /\ Len(InorderKeys(acall.pre)) = 5
    /\ acall.pre.left # Nil
    /\ acall.pre.right # Nil
    /\ acall.pre.right.left # Nil
    /\ acall.log = << >>
    /\ avl.key = InorderKeys(acall.pre.right)[1]

C26_StoredHeights ==
    \A n \in Subtrees(avl) :
        /\ n.height = 1 + Max(Height(n.left), Height(n.right))
        /\ n.height = Depth(n)

\* the last call rotated twice and left a tree of three levels
C26_Witness ==
    /\ Len(acall.log) = 2
    /\ avl # Nil
    /\ avl.height = 3
    /\ \E i \in 1..2 : acall.log[i].rot = "right"

\* ------------------------------------------------------------------------
\* C27
\* ------------------------------------------------------------------------
\* C27: after any sequence of insert and delete, every node of the trie has
\* is_end_of_word true exactly when its list of payloads is not empty, and
\* the node a word leads to has it true exactly when some payload inserted
\* under the word has not been deleted since.
C27_TerminalIffPayload ==
    /\ \A n \in { trie } \cup Descendants(trie) :
          n.is_end_of_word <=> n.books # << >>
    /\ \A k \in TrieKeys : \A w \in Prefixes(k) :
          NodeAt(trie, w, 1).is_end_of_word
              <=> (w \in TrieKeys /\ \E v \in TrieValues : twords[w][v] > 0)

\* delete has just removed the last payload of a word that is the prefix of
\* another word: its node stays, without the flag
C27_Witness ==
    /\ tcall.method = "delete"
    /\ tres.deleted
    /\ NodeAt(trie, Lower(tcall.word), 1).children # << >>
    /\ ~NodeAt(trie, Lower(tcall.word), 1).is_end_of_word
    /\ NodeAt(tpre, Lower(tcall.word), 1).is_end_of_word

\* ------------------------------------------------------------------------
\* C28
\* ------------------------------------------------------------------------
\* C28: when delete_book has removed a record while another record of the
\* store has the same title and was held by the prefix index under that
\* title, the other record is still returned by search_by_title_exact for
\* the title, still listed by get_all_sorted() and still returned by
\* search_by_title_prefix for the title.
C28_SameTitleSurvivesRemoval ==
    (pc = "done" /\ err = "none" /\ op = "delete_book")
        => \A b \in store :
              (/\ b # cur
               /\ book[b].title = old.title
               /\ InSeq(BookRef(b), NodeAt(snap.trie, Lower(old.title), 1).books))
              => /\ SearchByTitleExact(old.title) = BookRef(b)
                 /\ InSeq(BookRef(b), GetAllSorted)
                 /\ InSeq(BookRef(b), SearchByTitlePrefix(old.title))

\* ------------------------------------------------------------------------
\* C29
\* ------------------------------------------------------------------------
\* C29: after delete_book has removed a book that was loaded at startup,
\* search_by_author_prefix returns it for no prefix of the author name it
\* was loaded with; after update_book has given such a book another author,
\* it is returned for no prefix of the old name that is no prefix of the new
\* one; after add_book, the new book is returned for every prefix of its
\* author's name.
C29_AuthorIndexInStep ==
    LET r == BookRef(cur)
        was == Lower(loaded[cur].author)
        now == Lower(book[cur].author)
    IN  /\ (pc = "done" /\ op = "delete_book" /\ err = "none"
                        /\ loaded[cur] # NoBook)
              => \A q \in Prefixes(was) : ~InSeq(r, SearchByAuthorPrefix(q))
        /\ (pc = "done" /\ op = "update_book" /\ loaded[cur] # NoBook
                        /\ "author" \in DOMAIN fields /\ now # was)
              => \A q \in Prefixes(was) \ Prefixes(now) :
                     ~InSeq(r, SearchByAuthorPrefix(q))
        /\ (pc = "done" /\ op = "add_book")
              => \A q \in Prefixes(now) : InSeq(r, SearchByAuthorPrefix(q))

\* ------------------------------------------------------------------------
\* C30
\* ------------------------------------------------------------------------
\* C30: when the engine holds what one load_books of a snapshot gives, a
\* second load_books of the same snapshot changes the result of no ISBN
\* lookup, exact-title lookup, sorted listing, title prefix search or author
\* prefix search, and no prefix search returns a record twice.
C30_LoadTwiceAsOnce ==
    pc # "boot" =>
        \A q \in Snapshots(store) :
            LET once == LoadBooks([avl |-> Nil, buckets |-> EmptyBuckets,
                                   trie |-> TrieNode, atrie |-> TrieNode,
                                   err |-> "none"], loaded, q, 1)
                twice == LoadBooks(once, loaded, q, 1)
                found == PrefixSearch(twice.trie, << >>)
            IN  once = Engine =>
                    /\ Observe(twice, loaded) = Observe(once, loaded)
                    /\ \A a \in SearchPrefixes :
                          PrefixSearch(twice.atrie, a) = PrefixSearch(once.atrie, a)
                    /\ \A i, j \in 1..Len(found) : i # j => found[i] # found[j]

====
